---- MODULE Spec2Model ----
(***************************************************************************)
(* A model of kayahr/zsync, the Node.js port of the zsync client: the      *)
(* rolling-checksum block matcher (rsum), the known-range bookkeeping      *)
(* (range), the weak-sum hash index (hash), the control-file driven        *)
(* session (zsync) and the command line driver (client).                   *)
(*                                                                         *)
(* Arrays of the source are 0-based; sequences here are 1-based, so the    *)
(* element the source calls a[i] is a[i + 1] here (see At).                *)
(***************************************************************************)
EXTENDS Integers, Sequences, FiniteSets, TLC

(***************************************************************************)
(* Bounds of the model and constants of the program.                       *)
(***************************************************************************)

\* The Blocksize: values of the modelled control files.
BlockSizes == {2}

\* The largest number of blocks of a modelled target file.
MaxBlocks == 3

\* The range requests of one run of the program
MaxRequests == 3


\* rsum.ts: "Allocate buffer of 16 blocks".
BufBlocks == 16

\* internal.ts: BITHASHBITS.
BITHASHBITS == 3

\* Length of an MD4 digest (js-md4's array()).
CHECKSUM_SIZE == 16

\* zsync.ts: SHA1_DIGEST_LENGTH.
SHA1_DIGEST_LENGTH == 20

(***************************************************************************)
(* Arithmetic of JavaScript numbers on the values that occur.              *)
(***************************************************************************)

RECURSIVE Pow2(_)
Pow2(n) == IF n = 0 THEN 1 ELSE 2 * Pow2(n - 1)

\* x & 0xffff
And16(x) == x % 65536

\* a ^ b on non-negative integers
RECURSIVE Xor(_, _)
Xor(a, b) ==
    IF a = 0 THEN b
    ELSE IF b = 0 THEN a
    ELSE (((a % 2) + (b % 2)) % 2) + 2 * Xor(a \div 2, b \div 2)

\* The element a[i] of a 0-based array; reading past the end of a typed
\* array gives undefined, which every use here turns into 0 (c & 0xff).
At(a, i) == IF i >= 0 /\ i < Len(a) THEN a[i + 1] ELSE 0

\* a.subarray(from, to): clamped to the array
Sub(a, from, to) ==
    LET f == IF from > Len(a) THEN Len(a) ELSE from
        t == IF to > Len(a) THEN Len(a) ELSE to
    IN  IF t <= f THEN << >> ELSE SubSeq(a, f + 1, t)

Zeros(n) == [i \in 1..n |-> 0]

Min(a, b) == IF a < b THEN a ELSE b

(***************************************************************************)
(* rsum.ts: checksums of one block.                                        *)
(***************************************************************************)

\* rcksum_calc_rsum_block(data.subarray(x), len): the loop over the bytes
RECURSIVE rsum_loop(_, _, _, _, _)
rsum_loop(data, i, len, a, b) ==
    IF len = 0 THEN [a |-> a, b |-> b]
    ELSE LET c == At(data, i)
         IN  rsum_loop(data, i + 1, len - 1, And16(a + c), And16(b + len * c))

rcksum_calc_rsum_block(data, x, len) == rsum_loop(data, x, len, 0, 0)

\* The MD4 digest of a block (js-md4), CHECKSUM_SIZE bytes.  The digest is
\* an external library's; it is modelled by a mixing function whose first
\* byte already separates the blocks of the modelled files, as MD4 separates
\* real blocks: two blocks have the same digest only if they are equal.
RECURSIVE MixSum(_, _, _)
MixSum(data, k, i) ==
    IF k > Len(data) THEN 0
    ELSE (k + i) * (k + i) * (data[k] + 1) + MixSum(data, k + 1, i)

MD4(data) == [i \in 1..CHECKSUM_SIZE |-> (37 * i + MixSum(data, 1, i)) % 256]

rcksum_calc_checksum(data) == MD4(data)

(***************************************************************************)
(* range.ts: the known ranges.  rs.ranges is the flat array                *)
(* lo0, hi0, lo1, hi1, ... of closed block ranges.                         *)
(***************************************************************************)

RECURSIVE rbb_loop(_, _, _, _)
rbb_loop(rs, x, min, max) ==
    IF min > max THEN min
    ELSE LET r == (max + min) \div 2
         IN  IF x > At(rs.ranges, 2 * r + 1) THEN rbb_loop(rs, x, r + 1, max)
             ELSE IF x < At(rs.ranges, 2 * r) THEN rbb_loop(rs, x, min, r - 1)
             ELSE -1

\* A faulty range_before_block, which places every block after the last
\* range: the property of C15 is tested against it
range_after_last(rs, x) == rs.numranges

range_before_block(rs, x) == rbb_loop(rs, x, 0, rs.numranges - 1)

\* A faulty next_known_block, which reads the start of a range after the
\* last one: the property of C16 is tested against it
next_known_past_end(rs, x, r) ==
    IF r = -1 THEN x ELSE At(rs.ranges, 2 * r)

\* next_known_block after "const r = range_before_block(rs, x)"
next_known_from(rs, x, r) ==
    IF r = -1 THEN x
    ELSE IF r = rs.numranges THEN rs.blocks
    ELSE At(rs.ranges, 2 * r)

next_known_block(rs, x) == next_known_from(rs, x, range_before_block(rs, x))

\* ranges.splice(at, del, ...ins) and ranges[i] = v
Splice(a, at, del, ins) == Sub(a, 0, at) \o ins \o Sub(a, at + del, Len(a))
SetAt(a, i, v) == [a EXCEPT ![i + 1] = v]

\* A faulty add_to_ranges, which forgets the ranges it had: the property of
\* C10 is tested against it
add_to_ranges_forgetful(rs, x) ==
    [rs EXCEPT !.gotblocks = @ + 1, !.ranges = << x, x >>, !.numranges = 1]

\* A faulty add_to_ranges, which counts a block it already had once more:
\* the property of C11 is tested against it
add_range_at_recount(rs, x, r) ==
    IF r = -1 THEN [rs EXCEPT !.gotblocks = @ + 1]
    ELSE [rs EXCEPT !.gotblocks = @ + 1,
                    !.ranges = Splice(@, 2 * r, 0, <<x, x>>),
                    !.numranges = @ + 1]

\* A faulty add_to_ranges, which never merges two ranges when a block fills
\* the hole between them: the property of C14 is tested against it
add_range_at_unmerged(rs, x, r) ==
    IF r = -1 THEN rs
    ELSE IF r > 0 /\ rs.numranges # 0 /\ At(rs.ranges, 2 * (r - 1) + 1) = x - 1
    THEN [rs EXCEPT !.gotblocks = @ + 1,
                    !.ranges = SetAt(@, 2 * (r - 1) + 1, x)]
    ELSE IF r < rs.numranges /\ At(rs.ranges, 2 * r) = x + 1
    THEN [rs EXCEPT !.gotblocks = @ + 1,
                    !.ranges = SetAt(@, 2 * r, x)]
    ELSE [rs EXCEPT !.gotblocks = @ + 1,
                    !.ranges = Splice(@, 2 * r, 0, <<x, x>>),
                    !.numranges = @ + 1]

\* add_to_ranges after "const r = range_before_block(rs, x)"
add_range_at(rs, x, r) ==
    IF r = -1 THEN rs
    ELSE IF r > 0 /\ r < rs.numranges
            /\ At(rs.ranges, 2 * (r - 1) + 1) = x - 1
            /\ At(rs.ranges, 2 * r) = x + 1
    THEN [rs EXCEPT !.gotblocks = @ + 1,
                    !.ranges = Splice(SetAt(@, 2 * (r - 1) + 1, At(@, 2 * r + 1)),
                                      2 * r, 2, << >>),
                    !.numranges = @ - 1]
    ELSE IF r > 0 /\ rs.numranges # 0 /\ At(rs.ranges, 2 * (r - 1) + 1) = x - 1
    THEN [rs EXCEPT !.gotblocks = @ + 1,
                    !.ranges = SetAt(@, 2 * (r - 1) + 1, x)]
    ELSE IF r < rs.numranges /\ At(rs.ranges, 2 * r) = x + 1
    THEN [rs EXCEPT !.gotblocks = @ + 1,
                    !.ranges = SetAt(@, 2 * r, x)]
    ELSE [rs EXCEPT !.gotblocks = @ + 1,
                    !.ranges = Splice(@, 2 * r, 0, <<x, x>>),
                    !.numranges = @ + 1]

add_to_ranges(rs, x) == add_range_at(rs, x, range_before_block(rs, x))

RECURSIVE todo_loop(_, _, _)
todo_loop(rs, i, n) ==
    IF i >= rs.numranges THEN n
    ELSE todo_loop(rs, i + 1, n - (1 + At(rs.ranges, 2 * i + 1) - At(rs.ranges, 2 * i)))

rcksum_blocks_todo(rs) == todo_loop(rs, 0, rs.blocks)

\* The block ids inside the known ranges
KnownBlocks(rs) ==
    {x \in 0..(rs.blocks - 1) :
        \E i \in 0..(rs.numranges - 1) :
            At(rs.ranges, 2 * i) <= x /\ x <= At(rs.ranges, 2 * i + 1)}

(***************************************************************************)
(* internal.ts, state.ts, hash.ts: the rcksum_state and its hash index.    *)
(* A hash_entry is [checksum, a, b, next]: checksum << >> stands for null, *)
(* next is the block id of the next entry of the chain, -1 for null.       *)
(* z.fd is the content of the scratch file behind the file handle.         *)
(***************************************************************************)

\* state.ts: "Calculate bit-shift for blocksize"
RECURSIVE shift_loop(_, _)
shift_loop(blocksize, i) ==
    IF i >= 32 THEN 0
    ELSE IF blocksize = Pow2(i) THEN i
    ELSE shift_loop(blocksize, i + 1)

IsPow2(n) == \E i \in 0..31 : n = Pow2(i)

\* (blocksize & (blocksize - 1)) === 0 && blocks !== 0
rcksum_init_ok(nblocks, blocksize) == (blocksize = 0 \/ IsPow2(blocksize)) /\ nblocks # 0

rcksum_init(nblocks, blocksize, rsum_bytes, checksum_bytes, require_consecutive_matches) ==
    [ blocksize      |-> blocksize,
      blocks         |-> nblocks,
      rsum_a_mask    |-> IF rsum_bytes < 3 THEN 0 ELSE IF rsum_bytes = 3 THEN 255 ELSE 65535,
      rsum_bits      |-> rsum_bytes * 8,
      checksum_bytes |-> checksum_bytes,
      seq_matches    |-> require_consecutive_matches,
      context        |-> blocksize * require_consecutive_matches,
      gotblocks      |-> 0,
      ranges         |-> << >>,
      numranges      |-> 0,
      r              |-> << [a |-> 0, b |-> 0], [a |-> 0, b |-> 0] >>,
      rsum_hash_null |-> TRUE,
      rsum_hash      |-> << >>,
      bithash_null   |-> TRUE,
      bithash        |-> {},
      hashmask       |-> 0,
      bithashmask    |-> 0,
      \* not set by rcksum_init; each is written before it is first read
      skip           |-> 0,
      rover          |-> -1,
      next_match     |-> -1,
      next_known     |-> -1,
      filename_taken |-> FALSE,
      fd_closes      |-> 0,
      unlinked       |-> FALSE,
      fd             |-> << >>,
      blockshift     |-> shift_loop(blocksize, 0),
      blockhashes    |-> [i \in 1..(nblocks + require_consecutive_matches) |->
                            [checksum |-> << >>, a |-> 0, b |-> 0, next |-> -1]] ]

\* internal.ts calc_rhash(z, z.blockhashes, ei)
calc_rhash(z, ei) ==
    Xor(z.blockhashes[ei + 1].b,
        (IF z.seq_matches > 1 THEN z.blockhashes[ei + 2].b
         ELSE (z.blockhashes[1].a % (z.rsum_a_mask + 1))) * Pow2(BITHASHBITS))

rcksum_add_target_block(z, b, r, checksum) ==
    IF b < z.blocks
    THEN LET z1 == [z EXCEPT !.blockhashes[b + 1].checksum = checksum,
                             !.blockhashes[b + 1].a = r.a % (z.rsum_a_mask + 1),
                             !.blockhashes[b + 1].b = r.b]
         IN  IF ~z1.rsum_hash_null
             THEN [z1 EXCEPT !.rsum_hash = << >>, !.bithash_null = TRUE, !.bithash = {}]
             ELSE z1
    ELSE z

\* build_hash: "Try hash size of 2^i; step down the value of i"
RECURSIVE hash_size(_, _)
hash_size(blocks, i) ==
    IF Pow2(i) > blocks /\ i > 4 THEN hash_size(blocks, i - 1) ELSE i

\* build_hash: the loop "for (id = z.blocks; id > 0;)"
RECURSIVE build_loop(_, _)
build_loop(z, id) ==
    IF id <= 0 THEN z
    ELSE LET e == id - 1
             h == calc_rhash(z, e)
             k == (h % (z.hashmask + 1)) + 1
         IN  build_loop([z EXCEPT !.blockhashes[e + 1].next = z.rsum_hash[k],
                                  !.rsum_hash[k] = e,
                                  !.bithash = @ \cup {h % (z.bithashmask + 1)}],
                        e)

build_hash(z) ==
    LET i == hash_size(z.blocks, 16)
        hashmask == 2 * Pow2(i) - 1
    IN  build_loop([z EXCEPT !.hashmask = hashmask,
                             !.rsum_hash_null = FALSE,
                             !.rsum_hash = [j \in 1..(hashmask + 1) |-> -1],
                             !.bithashmask = 2 * Pow2(i + BITHASHBITS) - 1,
                             !.bithash_null = FALSE,
                             !.bithash = {}],
                   z.blocks)

\* z.rsum_hash[k]: the head of bucket k, -1 for null or undefined
Bucket(z, k) == IF k < Len(z.rsum_hash) THEN z.rsum_hash[k + 1] ELSE -1

\* remove_block_from_hash: walks the chain of the block's bucket to the entry
\* t; on finding it the rover is moved off it.  The assignment p = p.next
\* changes the local p only: no link of the chain is changed.
RECURSIVE remove_walk(_, _, _)
remove_walk(z, p, t) ==
    IF p = -1 THEN z
    ELSE IF p = t
    THEN (IF t = z.rover THEN [z EXCEPT !.rover = z.blockhashes[t + 1].next] ELSE z)
    ELSE remove_walk(z, z.blockhashes[p + 1].next, t)

remove_block_from_hash(z, id) ==
    remove_walk(z, Bucket(z, calc_rhash(z, id) % (z.hashmask + 1)), id)

(***************************************************************************)
(* The control file as its producer writes it (zsync 0.6.2 wire format):   *)
(* per block the low rsum_bytes bytes of the big-endian (a, b) and the     *)
(* first checksum_bytes bytes of the MD4 of the zero-padded block.         *)
(***************************************************************************)

NumBlocks(filelen, blocksize) == (filelen + blocksize - 1) \div blocksize

\* Block k of the file, zero-padded to the block size
PaddedBlock(data, blocksize, k) ==
    [i \in 1..blocksize |-> At(data, k * blocksize + i - 1)]

WireBlock(target, blocksize, rsum_bytes, checksum_bytes, k) ==
    LET blk == PaddedBlock(target, blocksize, k)
        r   == rcksum_calc_rsum_block(blk, 0, blocksize)
        be  == << r.a \div 256, r.a % 256, r.b \div 256, r.b % 256 >>
    IN  Sub(be, 4 - rsum_bytes, 4) \o Sub(MD4(blk), 0, checksum_bytes)

RECURSIVE WireBlocks(_, _, _, _, _)
WireBlocks(target, blocksize, rsum_bytes, checksum_bytes, k) ==
    IF k >= NumBlocks(Len(target), blocksize) THEN << >>
    ELSE WireBlock(target, blocksize, rsum_bytes, checksum_bytes, k)
         \o WireBlocks(target, blocksize, rsum_bytes, checksum_bytes, k + 1)

(***************************************************************************)
(* zsync.ts zsync_read_blocksums: the per-block records are read into a    *)
(* Uint16Array(2) through its byte view; r.a is taken as the first 16-bit  *)
(* element as the host stores it (low byte first on the little-endian      *)
(* hosts Node.js runs on), r.b is the second element with its bytes        *)
(* swapped.                                                                *)
(***************************************************************************)

RECURSIVE read_blocksums_loop(_, _, _, _, _, _)
read_blocksums_loop(z, wire, pos, id, rsum_bytes, checksum_bytes) ==
    IF id >= z.blocks THEN z
    ELSE LET got      == Sub(wire, pos, pos + rsum_bytes)
             buffer2  == Zeros(4 - rsum_bytes) \o got \o Zeros(rsum_bytes - Len(got))
             pos2     == pos + Len(got)
             cgot     == Sub(wire, pos2, pos2 + checksum_bytes)
             checksum == cgot \o Zeros(checksum_bytes - Len(cgot))
             buffer0  == buffer2[1] + 256 * buffer2[2]
             buffer1  == buffer2[3] + 256 * buffer2[4]
             r        == [a |-> buffer0,
                          b |-> (buffer1 \div 256) + 256 * (buffer1 % 256)]
         IN  read_blocksums_loop(rcksum_add_target_block(z, id, r, checksum),
                                 wire, pos2 + Len(cgot), id + 1, rsum_bytes, checksum_bytes)

zsync_read_blocksums(blocks, blocksize, wire, rsum_bytes, checksum_bytes, seq_matches) ==
    read_blocksums_loop(rcksum_init(blocks, blocksize, rsum_bytes, checksum_bytes, seq_matches),
                        wire, 0, 0, rsum_bytes, checksum_bytes)

(***************************************************************************)
(* rsum.ts: writing blocks and matching seed data.  data is the whole      *)
(* buffer and x the offset of the window in it (data.subarray(x) in the    *)
(* source).  The stats counters have no effect and are left out.           *)
(***************************************************************************)

\* fd.write(data, 0, n, offset) on the file content: a write past the end
\* leaves a hole that reads as zeros
FileWrite(file, offset, bytes) ==
    LET size == IF offset + Len(bytes) > Len(file) THEN offset + Len(bytes) ELSE Len(file)
    IN  [i \in 1..size |->
            IF i > offset /\ i <= offset + Len(bytes) THEN bytes[i - offset]
            ELSE IF i <= Len(file) THEN file[i] ELSE 0]

\* write_blocks: the loop "for (id = bfrom; id <= bto; id++)"
RECURSIVE mark_loop(_, _, _)
mark_loop(z, id, bto) ==
    IF id > bto THEN z
    ELSE mark_loop(add_to_ranges(remove_block_from_hash(z, id), id), id + 1, bto)

write_blocks(z, data, x, bfrom, bto) ==
    LET len    == (bto - bfrom + 1) * z.blocksize
        offset == bfrom * z.blocksize
        z1     == IF len # 0
                  THEN [z EXCEPT !.fd = FileWrite(@, offset, Sub(data, x, x + len))]
                  ELSE z
    IN  mark_loop(z1, bfrom, bto)

\* areEqual(first, second) of check_checksums_on_hash_chain: second is not
\* null, the lengths are equal and every byte is equal
areEqual(first, second) ==
    /\ second # << >>
    /\ Len(first) = Len(second)
    /\ \A i \in 1..Len(first) : first[i] = second[i]

\* The do ... while loop over check_md4: [ok, check_md4] at its exit
RECURSIVE strong_loop(_, _, _, _, _, _)
strong_loop(z, data, x, id, onlyone, check_md4) ==
    LET md4sum == rcksum_calc_checksum(Sub(data, x + z.blocksize * check_md4,
                                           x + z.blocksize * (check_md4 + 1)))
    IN  IF areEqual(md4sum, z.blockhashes[id + check_md4 + 1].checksum)
        THEN [ok |-> FALSE, check_md4 |-> check_md4]
        ELSE IF ~onlyone /\ check_md4 + 1 < z.seq_matches
        THEN strong_loop(z, data, x, id, onlyone, check_md4 + 1)
        ELSE [ok |-> TRUE, check_md4 |-> check_md4 + 1]

\* The entry id has the rolling sums of the window and the strong sums
\* gave s = [ok, check_md4]: the "if (ok)" part, with next_known as it is
\* after "if (!onlyone) z.next_known = ..."
take_match(z, data, x, id, onlyone, s, next_known) ==
    IF ~s.ok THEN [z |-> z, got |-> 0]
    ELSE LET all == next_known > id + s.check_md4
             n   == IF all THEN s.check_md4 ELSE next_known - id
         IN  [z   |-> write_blocks(
                          IF all
                          THEN [z EXCEPT !.next_match = id + s.check_md4,
                                         !.next_known = IF onlyone THEN @ ELSE next_known]
                          ELSE z,
                          data, x, id, id + n - 1),
              got |-> n]

\* One entry e of the chain: the body of "while (z.rover != null)"
check_entry(z, e, data, x, onlyone) ==
    LET r    == z.r[1]
        bh   == z.blockhashes
        mask == z.rsum_a_mask + 1
        id   == e
    IN  IF bh[e + 1].a # (r.a % mask) \/ bh[e + 1].b # r.b
        THEN [z |-> z, got |-> 0]
        ELSE IF ~onlyone /\ z.seq_matches > 1
                /\ (bh[id + 2].a # (z.r[2].a % mask) \/ bh[id + 2].b # z.r[2].b)
        THEN [z |-> z, got |-> 0]
        ELSE take_match(z, data, x, id, onlyone,
                        strong_loop(z, data, x, id, onlyone, 0),
                        IF onlyone THEN z.next_known ELSE next_known_block(z, id))

RECURSIVE chain_loop(_, _, _, _, _)
RECURSIVE chain_next(_, _, _, _, _)
\* "got_blocks += ..." with the result c of the entry, and the next turn
chain_next(c, data, x, onlyone, got_blocks) ==
    chain_loop(c.z, data, x, onlyone, got_blocks + c.got)

chain_loop(z, data, x, onlyone, got_blocks) ==
    IF z.rover = -1 THEN [z |-> z, got |-> got_blocks]
    ELSE chain_next(
             check_entry(
                 [z EXCEPT !.rover = IF onlyone THEN -1 ELSE z.blockhashes[z.rover + 1].next],
                 z.rover, data, x, onlyone),
             data, x, onlyone, got_blocks)

check_checksums_on_hash_chain(z, e, data, x, onlyone) ==
    chain_loop([z EXCEPT !.next_match = -1, !.rover = e], data, x, onlyone, 0)

\* The two rolling sums recomputed at window x
calc_sums(z, data, x, first_too) ==
    LET r0 == IF first_too THEN rcksum_calc_rsum_block(data, x, z.blocksize) ELSE z.r[1]
        r1 == IF z.seq_matches > 1
              THEN rcksum_calc_rsum_block(data, x + z.blocksize, z.blocksize)
              ELSE z.r[2]
    IN  [z EXCEPT !.r = << r0, r1 >>]

\* UPDATE_RSUM with the old byte taken off b once, not blocksize times
UPDATE_RSUM_unshifted(r, oldc, newc, blockshift) ==
    LET a == And16(r.a + ((newc % 256) - (oldc % 256)))
    IN  [a |-> a, b |-> And16(r.b + (a - oldc))]

\* UPDATE_RSUM(a, b, oldc, newc, bshift)
UPDATE_RSUM(r, oldc, newc, blockshift) ==
    LET a == And16(r.a + ((newc % 256) - (oldc % 256)))
    IN  [a |-> a, b |-> And16(r.b + (a - oldc * Pow2(blockshift)))]

\* "advance the window by 1 byte"
roll(z, data, x) ==
    LET bs == z.blocksize
        Nc == At(data, x + bs * 2)
        nc == At(data, x + bs)
        oc == At(data, x)
    IN  [z EXCEPT !.r = << UPDATE_RSUM(z.r[1], oc, nc, z.blockshift),
                           IF z.seq_matches > 1
                           THEN UPDATE_RSUM(z.r[2], nc, Nc, z.blockshift)
                           ELSE z.r[2] >>]

\* The hash the window's rolling sums are looked up under
window_hash(z) ==
    Xor(z.r[1].b,
        (IF z.seq_matches > 1 THEN z.r[2].b
         ELSE z.r[1].a % (z.rsum_a_mask + 1)) * Pow2(BITHASHBITS))

\* The matching at window x, its result being [z, blocks_matched].
\* "thismatch = check_checksums_on_hash_chain(z, e, data.subarray(x), 0)"
\* with the result m2 of the call
hash_match(m2, seq_matches) ==
    [z |-> m2.z, blocks_matched |-> IF m2.got # 0 THEN seq_matches ELSE 0]

\* The look-up of the window under hash, e being the head of its chain
hash_lookup(z, data, x, hash, e) ==
    IF ~z.bithash_null /\ (hash % (z.bithashmask + 1)) \in z.bithash /\ e # -1
    THEN hash_match(check_checksums_on_hash_chain(z, e, data, x, FALSE), z.seq_matches)
    ELSE [z |-> z, blocks_matched |-> 0]

\* After the try at z.next_match, m1 being its result
after_next_match(m1, data, x) ==
    IF m1.got # 0 THEN [z |-> m1.z, blocks_matched |-> 1]
    ELSE hash_lookup(m1.z, data, x, window_hash(m1.z),
                     Bucket(m1.z, window_hash(m1.z) % (m1.z.hashmask + 1)))

try_window(z, data, x) ==
    after_next_match(IF z.next_match # -1 /\ z.seq_matches > 1
                     THEN check_checksums_on_hash_chain(z, z.next_match, data, x, TRUE)
                     ELSE [z |-> z, got |-> 0],
                     data, x)

\* The loop "for (;;)" of rcksum_submit_source_data
RECURSIVE source_data_loop(_, _, _, _)
RECURSIVE source_data_next(_, _, _, _)
\* The rest of a turn, m being the result of the matching at window x
source_data_next(m, data, len, x) ==
    LET bs == m.z.blocksize
        x2 == x + bs + (IF m.blocks_matched > 1 THEN bs ELSE 0)
    IN  IF m.blocks_matched # 0
        THEN IF x2 + m.z.context > len
             THEN [m.z EXCEPT !.skip = x2 + m.z.context - len]
             ELSE source_data_loop(
                      IF m.z.seq_matches > 1 /\ m.blocks_matched = 1
                      THEN calc_sums([m.z EXCEPT !.r[1] = m.z.r[2]], data, x2, FALSE)
                      ELSE calc_sums(m.z, data, x2, TRUE),
                      data, len, x2)
        ELSE source_data_loop(roll(m.z, data, x), data, len, x + 1)

source_data_loop(z, data, len, x) ==
    IF x + z.context = len THEN z
    ELSE source_data_next(try_window(z, data, x), data, len, x)

rcksum_submit_source_data(z, data, len, offset) ==
    LET x  == IF offset # 0 THEN z.skip ELSE 0
        z1 == IF offset # 0 THEN z ELSE [z EXCEPT !.next_match = -1]
        z2 == IF x # 0 \/ offset = 0 THEN calc_sums(z1, data, x, TRUE) ELSE z1
    IN  source_data_loop([z2 EXCEPT !.skip = 0], data, len, x)

\* buf with bytes written from index at on (buf.set and fread into buf)
BufSet(buf, at, bytes) ==
    [i \in 1..Len(buf) |->
        IF i > at /\ i <= at + Len(bytes) THEN bytes[i - at] ELSE buf[i]]

\* The loop "while (!await feof(f))" of rcksum_submit_source_file; f is the
\* content of the seed file and pos the read position in it
RECURSIVE source_file_loop(_, _, _, _, _)
source_file_loop(z, f, pos, in2, buf) ==
    IF pos >= Len(f) THEN z
    ELSE LET bufsize == z.blocksize * BufBlocks
             first   == in2 = 0
             room    == IF first THEN bufsize ELSE bufsize - z.context
             n       == Min(room, Len(f) - pos)
             buf1    == IF first THEN buf
                        ELSE BufSet(buf, 0, Sub(buf, bufsize - z.context, bufsize))
             buf2    == BufSet(buf1, IF first THEN 0 ELSE z.context, Sub(f, pos, pos + n))
             len     == IF first THEN n ELSE z.context + n
             in3     == IF first THEN in2 + len ELSE in2 + bufsize - z.context
             eof     == pos + n >= Len(f)
             buf3    == IF eof THEN BufSet(buf2, len, Sub(Zeros(z.context), 0, Len(buf) - len))
                        ELSE buf2
             len2    == IF eof THEN len + z.context ELSE len
         IN  source_file_loop(rcksum_submit_source_data(z, buf3, len2, in2),
                              f, pos + n, in3, buf3)

rcksum_submit_source_file(z, f) ==
    LET z1 == IF z.rsum_hash_null THEN build_hash(z) ELSE z
    IN  source_file_loop(z1, f, 0, 0, Zeros(z.blocksize * BufBlocks + z.context))

\* rcksum_submit_blocks: the loop "for (x = bfrom; x <= bto; x++)".  rc is
\* the returned number; thrown is TRUE when z.blockhashes[x] is undefined
\* (reading .checksum of it throws a TypeError).
RECURSIVE submit_blocks_loop(_, _, _, _, _)
submit_blocks_loop(z, data, bfrom, bto, x) ==
    IF x > bto
    THEN [z |-> write_blocks(z, data, 0, bfrom, bto), rc |-> 0, thrown |-> FALSE]
    ELSE IF x + 1 > Len(z.blockhashes)
    THEN [z |-> z, rc |-> -1, thrown |-> TRUE]
    ELSE LET md4sum == rcksum_calc_checksum(Sub(data, (x - bfrom) * z.blocksize,
                                               (x - bfrom) * z.blocksize + z.blocksize))
         IN  IF Sub(md4sum, 0, z.checksum_bytes) # z.blockhashes[x + 1].checksum
             THEN [z |-> IF x > bfrom THEN write_blocks(z, data, 0, bfrom, x - 1) ELSE z,
                   rc |-> -1, thrown |-> FALSE]
             ELSE submit_blocks_loop(z, data, bfrom, bto, x + 1)

\* rcksum_submit_blocks that writes no block when one of them is wrong
submit_blocks_or_none(z, data, bfrom, bto) ==
    LET res == submit_blocks_loop(IF z.rsum_hash_null THEN build_hash(z) ELSE z,
                                  data, bfrom, bto, bfrom)
    IN  IF res.rc = 0 THEN res ELSE [res EXCEPT !.z = z]

rcksum_submit_blocks(z, data, bfrom, bto) ==
    submit_blocks_loop(IF z.rsum_hash_null THEN build_hash(z) ELSE z, data, bfrom, bto, bfrom)

(***************************************************************************)
(* range.ts rcksum_needed_block_ranges and zsync.ts: the session.          *)
(* A zsync_state zs is [rs, rs_null, filelen, blocks, blocksize, checksum, *)
(* url, mtime, cur_filename]; checksum << >> stands for "no SHA-1 header", *)
(* mtime -1 for "no MTime header".                                         *)
(***************************************************************************)

\* r[i] = v on a JavaScript array: writing at the end appends
ArrSet(r, i, v) == IF i < Len(r) THEN SetAt(r, i, v) ELSE Append(r, v)

\* The loop "for (i = 0; i < rs.numranges; i++)"
RECURSIVE needed_loop(_, _, _, _, _)
needed_loop(rs, from, i, r, n) ==
    IF i >= rs.numranges THEN r
    ELSE LET lo == At(rs.ranges, 2 * i)
             hi == At(rs.ranges, 2 * i + 1)
         IN  IF lo > At(r, 2 * n - 1) THEN needed_loop(rs, from, i + 1, r, n)
             ELSE IF hi < from THEN needed_loop(rs, from, i + 1, r, n)
             ELSE IF n = 1 /\ lo <= from
             THEN needed_loop(rs, from, i + 1, SetAt(r, 0, hi + 1), n)
             ELSE IF hi >= At(r, 2 * n - 1) - 1
             THEN needed_loop(rs, from, i + 1, SetAt(r, 2 * n - 1, lo), n)
             ELSE needed_loop(rs, from, i + 1,
                              SetAt(ArrSet(ArrSet(r, 2 * n, hi + 1), 2 * n + 1, At(r, 2 * n - 1)),
                                    2 * n - 1, lo),
                              n + 1)

\* The array r is returned whatever n is: "if (n === 1 && r[0] >= r[1]) n = 0"
\* changes the local n only.
rcksum_needed_block_ranges(rs, from, to) ==
    needed_loop(rs, from, 0, << from, IF to >= rs.blocks THEN rs.blocks ELSE to >>, 1)

zsync_needed_byte_ranges(zs) ==
    LET blrange == rcksum_needed_block_ranges(zs.rs, 0, 2147483647)
        nrange  == Len(blrange) \div 2
    IN  [k \in 1..(2 * nrange) |->
            IF k % 2 = 1 THEN blrange[k] * zs.blocksize
            ELSE blrange[k] * zs.blocksize - 1]

zsync_status(zs) ==
    LET todo == rcksum_blocks_todo(zs.rs)
    IN  IF todo = zs.blocks THEN 0 ELSE IF todo > 0 THEN 1 ELSE 2

\* zsync_submit_data that takes the data for the first blocks of the file
zsync_submit_data_at_start(zs, buf, offset, blocks) ==
    rcksum_submit_blocks(zs.rs, buf, 0, blocks - 1)

\* zsync_submit_data(zs, buf, offset, blocks).  zsync_receive_data passes
\* blocks = len / blocksize, which is no integer when the block size does not
\* divide len; the loops and the shift of rcksum_submit_blocks and
\* write_blocks then act on its integer part, which the caller passes here.
zsync_submit_data(zs, buf, offset, blocks) ==
    LET blstart == offset \div zs.blocksize
        blend   == blstart + blocks - 1
    IN  rcksum_submit_blocks(zs.rs, buf, blstart, blend)

zsync_begin_receive(zs) == [outbuf |-> Zeros(zs.blocksize), outoffset |-> 0]

\* zsync_receive_data, first part: "if (0 !== (offset % blocksize))".
\* The result is [rs, zr, buf, offset, len, ret, thrown].  x and len are
\* the values after the block was completed or padded, out1 is the outbuf
\* then and sub the result of zsync_submit_data on it.
unaligned_done(zr, buf, offset, x, len, out1, sub) ==
    [rs |-> sub.z, zr |-> [zr EXCEPT !.outbuf = out1],
     buf |-> Sub(buf, x, Len(buf)), offset |-> offset + x, len |-> len - x,
     ret |-> IF sub.rc # 0 THEN 1 ELSE 0, thrown |-> sub.thrown]

unaligned_submit(zs, zr, buf, offset, x, len, out1) ==
    unaligned_done(zr, buf, offset, x, len, out1,
                   IF zr.outoffset = offset /\ (x + offset) % zs.blocksize = 0
                   THEN zsync_submit_data(zs, out1, zr.outoffset + x - zs.blocksize, 1)
                   ELSE [z |-> zs.rs, rc |-> 0, thrown |-> FALSE])

receive_unaligned(zs, zr, buf, offset, len) ==
    LET bs   == zs.blocksize
        o    == offset % bs
        x0   == IF len > bs - o THEN bs - o ELSE len
        mine == zr.outoffset = offset
        x    == IF mine /\ len = 0 THEN bs - o ELSE x0
        len1 == IF mine /\ len = 0 THEN bs - o ELSE len
    IN  IF o = 0
        THEN [rs |-> zs.rs, zr |-> zr, buf |-> buf, offset |-> offset, len |-> len,
              ret |-> 0, thrown |-> FALSE]
        ELSE unaligned_submit(zs, zr, buf, offset, x, len1,
                              IF ~mine THEN zr.outbuf
                              ELSE IF len # 0 THEN BufSet(zr.outbuf, o, Sub(buf, 0, x))
                              ELSE BufSet(zr.outbuf, o, Zeros(len1)))

\* zsync_receive_data, "Store incomplete block" and the return: p1 is the
\* result of the first part, sub the result of zsync_submit_data on the
\* whole blocks.  w = len / blocksize; w *= blocksize: all of len is taken
\* as consumed.
receive_store(bs, p1, sub) ==
    LET full == p1.len >= bs
        len2 == IF full THEN 0 ELSE p1.len
        off2 == IF full THEN p1.offset + p1.len ELSE p1.offset
        buf2 == IF full THEN << >> ELSE p1.buf
        out2 == IF len2 # 0 THEN BufSet(p1.zr.outbuf, 0, Sub(buf2, 0, len2))
                ELSE p1.zr.outbuf
    IN  IF p1.thrown THEN [rs |-> p1.rs, zr |-> p1.zr, ret |-> p1.ret, thrown |-> TRUE]
        ELSE IF sub.thrown THEN [rs |-> sub.z, zr |-> p1.zr, ret |-> p1.ret, thrown |-> TRUE]
        ELSE [rs |-> sub.z,
              zr |-> [outbuf |-> out2, outoffset |-> off2 + len2],
              ret |-> IF sub.rc # 0 THEN 1 ELSE p1.ret,
              thrown |-> FALSE]

\* zsync_receive_data, "Now we are block-aligned"
receive_aligned(zs, p1) ==
    receive_store(zs.blocksize, p1,
                  IF p1.len >= zs.blocksize
                  THEN zsync_submit_data([zs EXCEPT !.rs = p1.rs], p1.buf, p1.offset,
                                         p1.len \div zs.blocksize)
                  ELSE [z |-> p1.rs, rc |-> 0, thrown |-> FALSE])

\* zsync_receive_data(zr, buf, offset, len): [rs, zr, ret, thrown]
zsync_receive_data(zs, zr, buf, offset, len) ==
    receive_aligned(zs, receive_unaligned(zs, zr, buf, offset, len))

(***************************************************************************)
(* zsync.ts: construction from the control file and completion.  The       *)
(* control file f is the record of its header values and its block sums:   *)
(* [Length, Blocksize, HashLengths, SHA1, MTime, URL, sums]; SHA1 is the   *)
(* text after "SHA-1: " as a sequence of characters, << >> when the header *)
(* is absent; MTime is the time the header parses to, -1 when absent.      *)
(***************************************************************************)

\* Names of the files the session touches
NoFile == "none"

\* zsync_begin: [zs, thrown]; thrown for the lines that raise an Error
zsync_begin(f) ==
    LET seq_matches    == f.HashLengths[1]
        rsum_bytes     == f.HashLengths[2]
        checksum_bytes == f.HashLengths[3]
        blocks == (f.Length + f.Blocksize - 1) \div f.Blocksize
        bad == \/ ~(f.Blocksize >= 0 /\ (f.Blocksize = 0 \/ IsPow2(f.Blocksize)))
               \/ ~(rsum_bytes >= 1 /\ rsum_bytes <= 4 /\ checksum_bytes >= 3
                    /\ checksum_bytes <= 16 /\ seq_matches >= 1 /\ seq_matches <= 2)
               \/ (f.SHA1 # << >> /\ Len(f.SHA1) # SHA1_DIGEST_LENGTH * 2)
               \/ ~(f.Length > 0 /\ f.Blocksize > 0)
               \/ ~rcksum_init_ok(blocks, f.Blocksize)
    IN  IF bad THEN [zs |-> << >>, thrown |-> TRUE]
        ELSE [zs |-> [rs           |-> zsync_read_blocksums(blocks, f.Blocksize, f.sums,
                                                            rsum_bytes, checksum_bytes,
                                                            seq_matches),
                      rs_null      |-> FALSE,
                      filelen      |-> f.Length,
                      blocks       |-> blocks,
                      blocksize    |-> f.Blocksize,
                      checksum     |-> f.SHA1,
                      url          |-> f.URL,
                      cur_filename |-> NoFile,
                      mtime        |-> f.MTime],
              thrown |-> FALSE]

zsync_submit_source_file(zs, f) == [zs EXCEPT !.rs = rcksum_submit_source_file(zs.rs, f)]

\* state.ts rcksum_filename: the name is handed over once; the temporary
\* file of rcksum_init is called "tmp"
rcksum_filename(rs) == IF rs.filename_taken THEN NoFile ELSE "tmp"

\* zsync_cur_filename: takes the name over from the rcksum_state
zsync_cur_filename(zs) ==
    IF zs.cur_filename = NoFile
    THEN [zs EXCEPT !.cur_filename = rcksum_filename(zs.rs), !.rs.filename_taken = TRUE]
    ELSE zs

\* state.ts rcksum_end: closes the handle, which adds to the count of its
\* closes, and unlinks the file if its name was never handed over
rcksum_end(z) ==
    [z EXCEPT !.fd_closes = @ + 1, !.unlinked = ~z.filename_taken]

\* truncate left out
no_truncate(data, len) == data

\* truncate(filename, filelen) on the content of the file
Truncate(data, len) == [k \in 1..len |-> At(data, k - 1)]

\* The SHA-1 digest of the file (node:crypto), SHA1_DIGEST_LENGTH bytes: an
\* external library's, modelled by a mixing function of every byte and of
\* the length.
SHA1(data) ==
    [k \in 1..SHA1_DIGEST_LENGTH |-> (11 * k + 7 * Len(data) + MixSum(data, 1, k + 2)) % 256]

\* shasum.digest("hex"): two lower-case hexadecimal digits per byte
HexDigits == << "0", "1", "2", "3", "4", "5", "6", "7",
                "8", "9", "a", "b", "c", "d", "e", "f" >>

Hex(bytes) ==
    [k \in 1..(2 * Len(bytes)) |->
        IF k % 2 = 1 THEN HexDigits[(bytes[(k + 1) \div 2] \div 16) + 1]
        ELSE HexDigits[(bytes[k \div 2] % 16) + 1]]

\* zsync_sha1: zs.checksum === shasum.digest("hex")
zsync_sha1(zs, data) == IF zs.checksum = Hex(SHA1(data)) THEN 1 ELSE -1

\* zsync_complete: [zs, file, rc]; file is the content of the scratch file
\* after truncate(filename, zs.filelen)
zsync_complete(zs) ==
    LET zs1  == zsync_cur_filename(zs)
        file == Truncate(zs1.rs.fd, zs1.filelen)
        zs2  == [zs1 EXCEPT !.rs = rcksum_end(@), !.rs_null = TRUE]
    IN  [zs   |-> zs2,
         file |-> file,
         rc   |-> IF zs.checksum # << >> THEN zsync_sha1(zs2, file) ELSE 0]

zsync_mtime(zs) == zs.mtime

\* zsync_end with rcksum_end in every case
zsync_end_always(zs) ==
    [zsync_cur_filename(zs) EXCEPT !.rs = rcksum_end(@)]

\* zsync_end: rcksum_end if the rcksum_state is still there
zsync_end(zs) ==
    LET zs1 == zsync_cur_filename(zs)
    IN  IF zs1.rs_null THEN zs1 ELSE [zs1 EXCEPT !.rs = rcksum_end(@)]

(***************************************************************************)
(* client.ts and util/RangeReader.ts: the download of the needed ranges.   *)
(***************************************************************************)

\* RangeReader.readRange, call after call: the RangeData { offset, buffer }
\* of a 206 response for the requested byte ranges (first, last, first,
\* last, ...) from a server that holds the file mirror.  The server cuts a
\* range at the end of its file and leaves out a range that starts past it.
Serve(mirror, ranges) ==
    LET part(k) == [offset |-> ranges[2 * k - 1],
                    buffer |-> Sub(mirror, ranges[2 * k - 1], ranges[2 * k] + 1)]
    IN  SelectSeq([k \in 1..(Len(ranges) \div 2) |-> part(k)],
                  LAMBDA rd : rd.offset < Len(mirror))

\* fetch_remaining_blocks_http: the loop
\* "while (ret !== 1 && (range = await reader.readRange()) != null)"
RECURSIVE receive_ranges(_, _, _, _, _, _)
RECURSIVE receive_next(_, _, _, _, _, _)
\* The rest of a turn, res being the result of zsync_receive_data on range
receive_next(res, zs, resp, k, ret, range) ==
    IF res.thrown
    THEN [zs |-> [zs EXCEPT !.rs = res.rs], zr |-> res.zr, ret |-> ret,
          zoffset |-> range.offset, thrown |-> TRUE]
    ELSE receive_ranges([zs EXCEPT !.rs = res.rs], res.zr, resp, k + 1,
                        IF res.ret # 0 THEN 1 ELSE ret,
                        range.offset + Len(range.buffer))

receive_ranges(zs, zr, resp, k, ret, zoffset) ==
    IF ret = 1 \/ k > Len(resp)
    THEN [zs |-> zs, zr |-> zr, ret |-> ret, zoffset |-> zoffset, thrown |-> FALSE]
    ELSE receive_next(zsync_receive_data(zs, zr, resp[k].buffer, resp[k].offset,
                                         Len(resp[k].buffer)),
                      zs, resp, k, ret, resp[k])

\* fetch_remaining_blocks_http on a URL whose server holds the file mirror;
\* the referer is set, the control file having been fetched by URL.
\* created is whether RangeReader.create resolves: it rejects, and the
\* rejection leaves the function as an exception, when the request fails or
\* the status is not 206.  The result is [zs, ret, thrown, request]; request
\* is the byte ranges asked for, if any.
\* The end of the function, l being the result of the loop and fin of the
\* last zsync_receive_data, with no data, whose return value is not looked at
fetch_end(l, fin, zbyterange) ==
    [zs |-> [l.zs EXCEPT !.rs = fin.rs], ret |-> l.ret,
     thrown |-> fin.thrown, request |-> << zbyterange >>]

fetch_received(l, zbyterange) ==
    IF l.thrown
    THEN [zs |-> l.zs, ret |-> l.ret, thrown |-> TRUE, request |-> << zbyterange >>]
    ELSE fetch_end(l, zsync_receive_data(l.zs, l.zr, << >>, l.zoffset, 0), zbyterange)

fetch_ranges(zs, created, mirror, zbyterange) ==
    IF Len(zbyterange) = 0
    THEN [zs |-> zs, ret |-> 0, thrown |-> FALSE, request |-> << >>]
    ELSE IF ~created
    THEN [zs |-> zs, ret |-> 0, thrown |-> TRUE, request |-> << zbyterange >>]
    ELSE fetch_received(receive_ranges(zs, zsync_begin_receive(zs),
                                       Serve(mirror, zbyterange), 1, 0, 0),
                        zbyterange)

fetch_remaining_blocks_http(zs, created, mirror) ==
    fetch_ranges(zs, created, mirror, zsync_needed_byte_ranges(zs))

\* A faulty duplicate check, which finds none: the property of C6 is tested
\* against it
never_dup(seedfiles, i) == FALSE

\* main: "Skip dups automatically": seedfiles[i] === seedfiles[j] for a j < i
is_dup(seedfiles, i) == \E j \in 0..(i - 1) : At(seedfiles, i) = At(seedfiles, j)

\* A faulty switch, which never throws: the property of C7 is tested
\* against it
never_failed(r) == FALSE

\* main: "case -1: throw new Error(...)" on the result of zsync_complete
complete_failed(r) == r = -1

\* main: the timestamp given to utimes
utimes_timestamp(mtime, timezoneOffset) == (mtime \div 1000) + timezoneOffset * 60

(***************************************************************************)
(* The modelled control files, seed files and remote copies.               *)
(***************************************************************************)

\* Hash-Lengths: seq_matches, rsum_bytes, checksum_bytes
HashLengthsSet == {<< sm, rb, cb >> : sm \in {1, 2}, rb \in {2, 4}, cb \in {3, 16}}

\* Those with the rsum_bytes of a small file
LibHashLengths == {hl \in HashLengthsSet : hl[2] = 2}

\* The blocks the modelled files are made of: two different blocks with the
\* same rolling sum b (and different sums a)
BlockSet == {<< 0, 2 >>, << 1, 0 >>}

\* The files of n blocks
RECURSIVE BlockSeqs(_)
BlockSeqs(n) ==
    IF n = 0 THEN {<< >>}
    ELSE {f \o blk : f \in BlockSeqs(n - 1), blk \in BlockSet}

\* The target files: MaxBlocks blocks, the last one whole or one byte short
Targets == UNION {{f, Sub(f, 0, Len(f) - 1)} : f \in BlockSeqs(MaxBlocks)}

\* The seed files of the library runs: fewer blocks than the target has
SeedFiles == UNION {BlockSeqs(n) : n \in 1..(MaxBlocks - 1)}

ControlFile(target, blocksize, hl, sha1, mtime, url) ==
    [Length      |-> Len(target),
     Blocksize   |-> blocksize,
     HashLengths |-> hl,
     SHA1        |-> sha1,
     MTime       |-> mtime,
     URL         |-> url,
     sums        |-> WireBlocks(target, blocksize, hl[2], hl[3], 0)]

\* The seed contents of the driver runs, made from the target
HalfOffset(t, bs) == bs * (NumBlocks(Len(t), bs) \div 2)

FirstHalf(t, bs) == Sub(t, 0, HalfOffset(t, bs))

SecondHalf(t, bs) == Sub(t, HalfOffset(t, bs), Len(t))

\* The target with the bytes of the blocks F changed
Altered(t, bs, F) ==
    [k \in 1..Len(t) |-> IF ((k - 1) \div bs) \in F THEN (t[k] + 1) % 3 ELSE t[k]]

\* A copy of the target on a broken mirror: the last byte differs
Corrupt(t) == [t EXCEPT ![Len(t)] = (@ + 1) % 3]

\* The upper-case spelling of a hex string
UpperHexDigits == << "0", "1", "2", "3", "4", "5", "6", "7", "8", "9",
                     "A", "B", "C", "D", "E", "F" >>

HexValue(ch) ==
    CHOOSE v \in 0..15 : HexDigits[v + 1] = ch \/ UpperHexDigits[v + 1] = ch

UpperCase(hex) == [k \in 1..Len(hex) |-> UpperHexDigits[HexValue(hex[k]) + 1]]

\* The SHA-1 header: none, the digest of the target in lower case, the same
\* in upper case, the digest of another file
ShaHeaders(t) ==
    {<< >>, Hex(SHA1(t)), UpperCase(Hex(SHA1(t))), Hex(SHA1(Corrupt(t)))}

\* The MTime header, in milliseconds
MTimes == {3000}

\* The URL headers
URLs == << "u1", "u2" >>

\* The URL headers of the control files of the driver runs: one URL or two
UrlLists == {<< "u1" >>, URLs}

\* Date.getTimezoneOffset, in minutes
TimezoneOffsets == {-60}

\* The files of the driver runs
Paths == {"seed1", "seed2", "out", "out.part", "out.zs-old", "tmp"}

NoSuchFile == [exists |-> FALSE, data |-> << >>, mtime |-> 0]

OldFile(data) == [exists |-> TRUE, data |-> data, mtime |-> 1]

NewFile(data) == [exists |-> TRUE, data |-> data, mtime |-> 2]

\* The runs of the driver: the -i options, the files they name (in one run
\* the first of them does not exist) and the output file or the .part file
\* of an earlier run, if there is one
SeedConfigs(t, bs) ==
    LET alt == {Altered(t, bs, F) :
                  F \in (SUBSET (0..(NumBlocks(Len(t), bs) - 1))) \ {{}}}
        run(sf, s1, s2, old) == [seedfiles |-> sf, seed1 |-> s1, seed2 |-> s2,
                                 out |-> old, part |-> NoSuchFile]
        was == OldFile(Altered(t, bs, {0}))
    IN  {run(<< >>, NoSuchFile, NoSuchFile, old) : old \in {NoSuchFile, was}}
        \cup {run(<< "seed1" >>, OldFile(s), NoSuchFile, NoSuchFile) :
                s \in {t, FirstHalf(t, bs)} \cup alt}
        \cup {run(<< "seed1" >>, OldFile(t), NoSuchFile, was)}
        \cup {run(<< "seed1", "seed1" >>, OldFile(s), NoSuchFile, NoSuchFile) :
                s \in {t, FirstHalf(t, bs)}}
        \cup {run(sf, OldFile(FirstHalf(t, bs)), OldFile(SecondHalf(t, bs)), NoSuchFile) :
                sf \in {<< "seed1", "seed2" >>, << "seed2", "seed1" >>}}
        \cup {run(<< "seed2", "seed1" >>, OldFile(t), NoSuchFile, NoSuchFile)}
        \cup {[run(sf, OldFile(t), NoSuchFile, NoSuchFile)
                  EXCEPT !.part = OldFile(FirstHalf(t, bs))] :
                sf \in {<< >>, << "seed1" >>}}

(***************************************************************************)
(* The state.                                                              *)
(***************************************************************************)
VARIABLES
    target,     \* the file the control file describes
    cf,         \* the control file
    zs,         \* the zsync_state with its rcksum_state zs.rs
    zr,         \* the zsync_receiver of the running download
    pc,         \* the position in the program
    fs,         \* the file system: path -> file
    fs0,        \* the file system when the program started
    seedfiles,  \* main: seedfiles
    i,          \* main: the index of the seed loop
    status,     \* fetch_remaining_blocks: status, << >> for undefined
    ok_urls,    \* fetch_remaining_blocks: ok_urls
    r,          \* main: << r >> once zsync_complete has returned r
    io,         \* the seed files read and the range requests sent, in order,
                \* and the parity of the turns of the fetch loop not logged
    added,      \* the block ids given to add_to_ranges when it is driven directly
    http,       \* the fetch of the control file: the server, the URL
                \* requested, the referer and the error raised; << >> when
                \* the control file is given
    call        \* the call in progress or made last when the library is
                \* driven call by call; << >> otherwise

lib  == << target, cf, zs, zr, pc >>

drv  == << fs, fs0, seedfiles, i, status, ok_urls, r, io, added, http, call >>

vars == << lib, drv >>

(***************************************************************************)
(* The library driven directly: any sequence of seed submissions and       *)
(* receives on a session begun from a valid control file.                  *)
(***************************************************************************)

Init ==
    /\ target \in Targets
    /\ \E bs \in BlockSizes, hl \in LibHashLengths :
          cf = ControlFile(target, bs, hl, << >>, -1, << >>)
    /\ zs = zsync_begin(cf).zs
    /\ zr = zsync_begin_receive(zs)
    /\ pc = "lib"
    /\ fs = [p \in Paths |-> NoSuchFile]
    /\ fs0 = fs
    /\ seedfiles = << >>
    /\ i = 0
    /\ status = << >>
    /\ ok_urls = 0
    /\ r = << >>
    /\ io = [reads |-> << >>, requests |-> << >>, turn |-> 0]
    /\ added = {}
    /\ http = << >>
    /\ call = << >>

\* zsync_submit_source_file on a seed file
SubmitSeed ==
    /\ pc = "lib"
    /\ \E f \in SeedFiles : zs' = zsync_submit_source_file(zs, f)
    /\ UNCHANGED << target, cf, zr, pc, drv >>

\* The bytes a remote copy sends for the range from offset on: the bytes of
\* the target, or those with the first byte changed
RemoteData(offset, len) ==
    LET good == Sub(target, offset, offset + len)
    IN  {good, [good EXCEPT ![1] = (@ + 1) % 3]}

\* zsync_receive_data on the buffer of a range response: the range is a run
\* of blocks, cut at the end of the file; the ranges of one download arrive
\* in ascending order
Received(res) ==
    /\ ~res.thrown
    /\ zs' = [zs EXCEPT !.rs = res.rs]
    /\ zr' = res.zr

ReceiveData ==
    /\ pc = "lib"
    /\ \E bfrom \in 0..(zs.blocks - 1) :
       \E bto \in bfrom..(zs.blocks - 1) :
          LET offset == bfrom * zs.blocksize
              len    == Min((bto + 1) * zs.blocksize, zs.filelen) - offset
          IN  \E buf \in RemoteData(offset, len) :
                 /\ offset >= zr.outoffset
                 /\ Received(zsync_receive_data(zs, zr, buf, offset, len))
    /\ UNCHANGED << target, cf, pc, drv >>

\* zsync_receive_data with no data at the end of a download: the offset is
\* the end of the last buffer.  The receiver is dropped; the next download
\* starts with zsync_begin_receive.
Flushed(res) ==
    /\ ~res.thrown
    /\ zs' = [zs EXCEPT !.rs = res.rs]
    /\ zr' = zsync_begin_receive(zs)

ReceiveEnd ==
    /\ pc = "lib"
    /\ Flushed(zsync_receive_data(zs, zr, << >>, zr.outoffset, 0))
    /\ UNCHANGED << target, cf, pc, drv >>

Next == SubmitSeed \/ ReceiveData \/ ReceiveEnd

Spec == Init /\ [][Next]_vars

(***************************************************************************)
(* client.ts main: the program run on a control file fetched by URL, with  *)
(* the output file "out", the -i seed files and two URLs.                  *)
(***************************************************************************)

\* node:fs rename, link and unlink on the file system
rename(f, from, to) == [f EXCEPT ![to] = f[from], ![from] = NoSuchFile]

\* a link that makes no new name
link_nothing(f, from, to) == f

link(f, from, to) == [f EXCEPT ![to] = f[from]]

unlink(f, path) == [f EXCEPT ![path] = NoSuchFile]

\* The path of the scratch file librcksum writes to
ScratchPath(z) == IF z.cur_filename = NoFile THEN "tmp" ELSE z.cur_filename

\* zsync_rename_file: the zsync_state afterwards
zsync_rename_file(z, f) == [zsync_cur_filename(z) EXCEPT !.cur_filename = f]

\* zsync_get_urls
zsync_get_urls(z) == z.url

InitMain ==
    /\ target \in UNION {{f, Sub(f, 0, Len(f) - 1)} : f \in BlockSeqs(MaxBlocks - 1)}
    /\ \E bs \in BlockSizes, hl \in HashLengthsSet, sha \in ShaHeaders(target),
          mt \in MTimes, urls \in UrlLists :
          /\ cf = ControlFile(target, bs, hl, sha, mt, urls)
          /\ \E sc \in SeedConfigs(target, bs) :
                /\ seedfiles = sc.seedfiles
                /\ fs = [p \in Paths |->
                           CASE p = "seed1" -> sc.seed1
                             [] p = "seed2" -> sc.seed2
                             [] p = "out"   -> sc.out
                             [] p = "out.part" -> sc.part
                             [] p = "tmp"   -> NewFile(<< >>)
                             [] OTHER       -> NoSuchFile]
    /\ zs = zsync_begin(cf).zs
    /\ zr = zsync_begin_receive(zs)
    /\ pc = "start"
    /\ fs0 = fs
    /\ i = 0
    /\ status = << >>
    /\ ok_urls = 0
    /\ r = << >>
    /\ io = [reads |-> << >>, requests |-> << >>, turn |-> 0]
    /\ added = {}
    /\ http = << >>
    /\ call = << >>

\* main, step 2: an existing output file and an existing .part file are
\* added at the end of the seed files
AddLocalSeeds ==
    /\ pc = "start"
    /\ seedfiles' = seedfiles
                      \o (IF fs["out"].exists THEN << "out" >> ELSE << >>)
                      \o (IF fs["out.part"].exists THEN << "out.part" >> ELSE << >>)
    /\ i' = 0
    /\ pc' = "seeds"
    /\ UNCHANGED << target, cf, zs, zr, fs, fs0, added, http, call, status, ok_urls, r, io >>

\* main, one turn of the seed loop: read_seed_file unless the name is a
\* duplicate of an earlier one; fopen of a file that cannot be opened
\* rejects, and neither read_seed_file nor main catches it
ReadSeed ==
    /\ pc = "seeds"
    /\ i < Len(seedfiles)
    /\ zsync_status(zs) < 2
    /\ IF is_dup(seedfiles, i)
       THEN /\ i' = i + 1
            /\ UNCHANGED << zs, io, pc >>
       ELSE IF ~fs[At(seedfiles, i)].exists
       THEN /\ pc' = "failed"
            /\ UNCHANGED << zs, io, i >>
       ELSE /\ zs' = zsync_submit_source_file(zs, fs[At(seedfiles, i)].data)
            /\ io' = [io EXCEPT !.reads = Append(@, At(seedfiles, i))]
            /\ i' = i + 1
            /\ pc' = pc
    /\ UNCHANGED << target, cf, zr, fs, fs0, added, http, call, seedfiles, status, ok_urls, r >>

\* main, the end of the seed loop: zsync_rename_file to the .part name and
\* the start of fetch_remaining_blocks
SeedsDone ==
    /\ pc = "seeds"
    /\ ~(i < Len(seedfiles) /\ zsync_status(zs) < 2)
    /\ zs' = zsync_rename_file(zs, "out.part")
    /\ fs' = rename([fs EXCEPT ![ScratchPath(zs)] = NewFile(zs.rs.fd)],
                    ScratchPath(zs), "out.part")
    /\ status' = [k \in 1..Len(zsync_get_urls(zs)) |-> << >>]
    /\ ok_urls' = Len(zsync_get_urls(zs))
    /\ pc' = IF Len(zsync_get_urls(zs)) = 0 THEN "failed" ELSE "fetch"
    /\ UNCHANGED << target, cf, zr, fs0, added, http, call, seedfiles, i, r, io >>

\* fetch_remaining_blocks, one turn of the loop: a URL is drawn and
\* fetch_remaining_blocks_http runs on it; the server holds the target or a
\* corrupt copy, or the request fails
Fetched(f, try2, answer, logged) ==
    /\ zs' = f.zs
    /\ fs' = [fs EXCEPT ![ScratchPath(zs)] = NewFile(f.zs.rs.fd)]
    /\ io' = IF ~logged THEN [io EXCEPT !.turn = 1 - @]
             ELSE [io EXCEPT !.requests =
                     @ \o [k \in 1..Len(f.request) |->
                             [url |-> At(zsync_get_urls(zs), try2),
                              ranges |-> f.request[k], answer |-> answer]]]
    /\ IF f.thrown
       THEN pc' = "failed" /\ UNCHANGED << status, ok_urls >>
       ELSE /\ pc' = pc
            /\ IF f.ret # 0
               THEN /\ status' = [status EXCEPT ![try2 + 1] = << 1 >>]
                    /\ ok_urls' = ok_urls - 1
               ELSE UNCHANGED << status, ok_urls >>

\* logged: whether the requests are added to the log io.requests; when they
\* are not, io.turn tells one turn of the loop from the next
FetchTurn(logged) ==
    /\ pc = "fetch"
    /\ zsync_status(zs) < 2 /\ ok_urls # 0
    /\ \E try2 \in 0..(Len(zsync_get_urls(zs)) - 1), created \in BOOLEAN,
          mirror \in {target, Corrupt(target)} :
          IF At(status, try2) # << 0 >>
          THEN Fetched(fetch_remaining_blocks_http(zs, created, mirror), try2,
                       IF ~created THEN "error"
                       ELSE IF mirror = target THEN "ok" ELSE "corrupt",
                       logged)
          ELSE UNCHANGED << zs, fs, io, pc, status, ok_urls >>
    /\ UNCHANGED << target, cf, zr, fs0, added, http, call, seedfiles, i, r >>

\* The turn with its requests logged, as long as the log has room
FetchUrl ==
    /\ Len(io.requests) < MaxRequests
    /\ FetchTurn(TRUE)

\* The turn with nothing logged: no bound on the number of turns
FetchUrlUnlogged == FetchTurn(FALSE)

\* main, step 4: fetch_remaining_blocks has returned; zsync_complete, the
\* switch on its result, zsync_mtime and zsync_end
Completed(c) ==
    /\ r' = << c.rc >>
    /\ fs' = [fs EXCEPT ![ScratchPath(c.zs)] = NewFile(c.file)]
    /\ IF complete_failed(c.rc)
       THEN zs' = c.zs /\ pc' = "failed"
       ELSE zs' = zsync_end(c.zs) /\ pc' = "finalize"

Complete ==
    /\ pc = "fetch"
    /\ ~(zsync_status(zs) < 2 /\ ok_urls # 0)
    /\ Completed(zsync_complete(zs))
    /\ UNCHANGED << target, cf, zr, fs0, added, http, call, seedfiles, i, status, ok_urls, io >>

\* main, step 5: the old output file is backed up by link, or by rename
\* when link fails, and the .part file is moved into place
MoveIntoPlace ==
    /\ pc = "finalize"
    /\ \E backup \in {"link", "rename", "none"}, tz \in TimezoneOffsets :
          LET temp_file == ScratchPath(zs)
              mtime     == zsync_mtime(zs)
              exists    == fs["out"].exists
              fs1 == IF exists THEN unlink(fs, "out.zs-old") ELSE fs
              fs2 == IF exists /\ backup = "link" THEN link(fs1, "out", "out.zs-old")
                     ELSE IF exists /\ backup = "rename"
                     THEN rename(fs1, "out", "out.zs-old")
                     ELSE fs1
              ok  == ~(exists /\ backup = "none")
              fs3 == IF ok THEN rename(fs2, temp_file, "out") ELSE fs2
          IN  fs' = IF ok /\ mtime # -1
                    THEN [fs3 EXCEPT !["out"].mtime = utimes_timestamp(mtime, tz)]
                    ELSE fs3
    /\ pc' = "done"
    /\ UNCHANGED << target, cf, zs, zr, fs0, added, http, call, seedfiles, i, status, ok_urls, r, io >>

NextMain ==
    AddLocalSeeds \/ ReadSeed \/ SeedsDone \/ FetchUrl \/ Complete \/ MoveIntoPlace

SpecMain == InitMain /\ [][NextMain]_vars

\* The runs with no old output file and no seed file, or the first half of
\* the target as the seed file
InitFetch ==
    /\ InitMain
    /\ ~fs["out"].exists
    /\ \/ seedfiles = << >>
       \/ /\ seedfiles = << "seed1" >>
          /\ fs["seed1"].data = FirstHalf(target, cf.Blocksize)

\* The program with no log of its requests, every step of which ends: a
\* range fetch that has started returns or throws, and main goes on after
\* fetch_remaining_blocks has returned
NextFetch ==
    AddLocalSeeds \/ ReadSeed \/ SeedsDone \/ FetchUrlUnlogged \/ Complete \/ MoveIntoPlace

SpecFetch ==
    /\ InitFetch
    /\ [][NextFetch]_vars
    /\ WF_vars(FetchUrlUnlogged)
    /\ WF_vars(Complete)

(***************************************************************************)
(* range.ts driven directly: any sequence of add_to_ranges calls on the    *)
(* rcksum_state of a session just begun.                                   *)
(***************************************************************************)

\* The largest number of blocks of a session whose ranges are driven directly
MaxRangeBlocks == 6

InitRanges ==
    /\ \E bs \in BlockSizes, n \in 1..MaxRangeBlocks, short \in {0, 1},
          hl \in LibHashLengths :
          /\ target = Zeros(bs * n - short)
          /\ cf = ControlFile(target, bs, hl, << >>, -1, << >>)
    /\ zs = zsync_begin(cf).zs
    /\ zr = zsync_begin_receive(zs)
    /\ pc = "ranges"
    /\ fs = [p \in Paths |-> NoSuchFile]
    /\ fs0 = fs
    /\ seedfiles = << >>
    /\ i = 0
    /\ status = << >>
    /\ ok_urls = 0
    /\ r = << >>
    /\ io = [reads |-> << >>, requests |-> << >>, turn |-> 0]
    /\ added = {}
    /\ http = << >>
    /\ call = << >>

\* add_to_ranges on a block id of the session
AddToRanges ==
    /\ pc = "ranges"
    /\ \E x \in 0..(zs.rs.blocks - 1) :
          /\ zs' = [zs EXCEPT !.rs = add_to_ranges(@, x)]
          /\ added' = added \cup {x}
    /\ UNCHANGED << target, cf, zr, pc, fs, fs0, seedfiles, i, status, ok_urls, r, io, http, call >>

NextRanges == AddToRanges

SpecRanges == InitRanges /\ [][NextRanges]_vars

(***************************************************************************)
(* The control file fetched from a URL: http.ts http_get follows the       *)
(* redirects, zsync.ts zsync_begin reads the header lines and the block    *)
(* sums, and client.ts fetch_remaining_blocks_http resolves the URL        *)
(* headers against the referer.                                            *)
(* A URL is [host, dir, file].  A reference, as a Location or URL header   *)
(* holds it, is a URL, a path [dir, file] or a file name [file].  A header *)
(* name or a Safe value is a sequence of symbols; the names the program    *)
(* knows are one symbol each.  A header line is << key, value >>, a line   *)
(* without ": " is << text >>.                                             *)
(***************************************************************************)

Url(h, d, f) == [host |-> h, dir |-> d, file |-> f]

\* new URL(ref, base).href
Resolve(ref, base) ==
    [host |-> IF "host" \in DOMAIN ref THEN ref.host ELSE base.host,
     dir  |-> IF "dir" \in DOMAIN ref THEN ref.dir ELSE base.dir,
     file |-> ref.file]

\* setReferer kept from the first call only
first_referer(h, ref) == IF h.referer = << >> THEN [h EXCEPT !.referer = << ref >>] ELSE h

\* http.ts setReferer, the track_referer of read_zsync_control_file
setReferer(h, ref) == [h EXCEPT !.referer = << ref >>]

\* every answer taken for a redirect
always_redirect(res) == TRUE

\* http_get: the response is a redirect
redirected(res) == res.statusCode \in {301, 302, 307}

\* http_get, one call on the URL h.url, the response being res: the referer
\* is set, and the call ends with an error, with a further call on the
\* location (h.url is then the URL of that call), or with the file
http_get(h, res) ==
    LET h1 == setReferer(h, h.url)
    IN  IF redirected(res)
        THEN IF res.location = << >>
             THEN [h1 EXCEPT !.error = << "HTTP redirect has no location header" >>]
             ELSE [h1 EXCEPT !.url = Resolve(res.location[1], h.url)]
        ELSE IF res.statusCode # 200
        THEN [h1 EXCEPT !.error = << "HTTP request failed with status", h.url,
                                    res.statusCode, res.statusMessage >>]
        ELSE [h1 EXCEPT !.fetched = TRUE]

\* String.indexOf(needle) !== -1
Contains(hay, needle) ==
    \E o \in 0..(Len(hay) - Len(needle)) : Sub(hay, o, o + Len(needle)) = needle

\* value > VERSION on strings, given as their character codes
RECURSIVE StringGreater(_, _)
StringGreater(a, b) ==
    IF a = << >> THEN FALSE
    ELSE IF b = << >> THEN TRUE
    ELSE IF Head(a) # Head(b) THEN Head(a) > Head(b)
    ELSE StringGreater(Tail(a), Tail(b))

\* zsync_begin, the header "key: value"; st is [f, safelines, blocks,
\* thrown], f the values of the headers read, safelines << >> for null;
\* VERSION is "0.6.2"
header(st, key, value) ==
    LET throw   == [st EXCEPT !.thrown = TRUE]
        VERSION == << 48, 46, 54, 46, 50 >>
    IN  IF key = << "zsync" >> THEN (IF value = "0.0.4" THEN throw ELSE st)
        ELSE IF key = << "Min-Version" >>
        THEN (IF StringGreater(value, VERSION) THEN throw ELSE st)
        ELSE IF key = << "Length" >> THEN [st EXCEPT !.f.Length = value]
        ELSE IF key = << "Filename" >> THEN st
        ELSE IF key = << "Z-Filename" >> THEN throw
        ELSE IF key = << "URL" >> THEN [st EXCEPT !.f.URL = Append(@, value)]
        ELSE IF key = << "Z-URL" >> THEN throw
        ELSE IF key = << "Blocksize" >>
        THEN (IF ~(value >= 0 /\ (value = 0 \/ IsPow2(value))) THEN throw
              ELSE [st EXCEPT !.f.Blocksize = value])
        ELSE IF key = << "Hash-Lengths" >>
        THEN (IF Len(value) # 3 THEN throw
              ELSE IF ~(value[2] >= 1 /\ value[2] <= 4 /\ value[3] >= 3 /\ value[3] <= 16
                        /\ value[1] >= 1 /\ value[1] <= 2) THEN throw
              ELSE [st EXCEPT !.f.HashLengths = value])
        ELSE IF st.blocks > 0 /\ key = << "Z-Map2" >> THEN throw
        ELSE IF key = << "SHA-1" >>
        THEN (IF Len(value) # SHA1_DIGEST_LENGTH * 2 THEN throw
              ELSE [st EXCEPT !.f.SHA1 = value])
        ELSE IF key = << "Safe" >> THEN [st EXCEPT !.safelines = << value >>]
        ELSE IF key = << "Recompress" >> THEN throw
        ELSE IF key = << "MTime" >> THEN [st EXCEPT !.f.MTime = value]
        ELSE IF st.safelines = << >> \/ ~Contains(st.safelines[1], key) THEN throw
        ELSE st

\* zsync_begin, the loop over the lines up to the blank line
RECURSIVE header_lines(_, _, _)
header_lines(st, lines, k) ==
    IF st.thrown \/ k > Len(lines) THEN st
    ELSE IF Len(lines[k]) < 2 THEN [st EXCEPT !.thrown = TRUE]
    ELSE LET st1 == header(st, lines[k][1], lines[k][2])
         IN  header_lines(IF ~st1.thrown /\ st1.f.Length > 0 /\ st1.f.Blocksize > 0
                          THEN [st1 EXCEPT !.blocks = NumBlocks(st1.f.Length, st1.f.Blocksize)]
                          ELSE st1,
                          lines, k + 1)

\* zsync_begin on the file with these header lines and block sums, from
\* the defaults of the headers
zsync_begin_file(c) ==
    LET no_headers ==
            [f         |-> [Length |-> 0, Blocksize |-> 0, HashLengths |-> << 1, 4, 16 >>,
                            SHA1 |-> << >>, MTime |-> -1, URL |-> << >>],
             safelines |-> << >>,
             blocks    |-> 0,
             thrown    |-> FALSE]
        st == header_lines(no_headers, c.lines, 1)
    IN  IF st.thrown THEN [zs |-> << >>, thrown |-> TRUE]
        ELSE zsync_begin([Length      |-> st.f.Length,
                          Blocksize   |-> st.f.Blocksize,
                          HashLengths |-> st.f.HashLengths,
                          SHA1        |-> st.f.SHA1,
                          MTime       |-> st.f.MTime,
                          URL         |-> st.f.URL,
                          sums        |-> c.sums])

\* The servers: what they answer on the URL of the control file and on two
\* further URLs: a status, its message and the Location header if any
Servers ==
    LET Response(code, message, location) ==
            [statusCode |-> code, statusMessage |-> message, location |-> location]
        Redirects(codes, refs) ==
            {Response(c, "Moved", << ref >>) : c \in codes, ref \in refs}
        first == {Response(200, "OK", << >>), Response(404, "Not Found", << >>),
                  Response(301, "Moved", << >>)}
                 \cup Redirects({301, 302, 307},
                                {[file |-> "d.zsync"], [dir |-> "b", file |-> "c.zsync"],
                                 Url("h2", "b", "d.zsync")})
        moved == {Response(200, "OK", << >>), Response(500, "Internal Server Error", << >>)}
                 \cup Redirects({307}, {Url("h2", "b", "d.zsync")})
                 \cup Redirects({302}, {[file |-> "c.zsync"]})
        mirror == {Response(200, "OK", << >>), Response(404, "Not Found", << >>),
                   Response(302, "Found", << >>)}
    IN  {[u \in {Url("h1", "a", "c.zsync"), Url("h1", "a", "d.zsync"),
                 Url("h2", "b", "d.zsync")} |->
            IF u = Url("h1", "a", "c.zsync") THEN a
            ELSE IF u = Url("h1", "a", "d.zsync") THEN b ELSE c] :
         a \in first, b \in moved, c \in mirror}

\* The response of the server to a request; 404 on a URL it does not know
Respond(server, u) ==
    IF u \in DOMAIN server THEN server[u]
    ELSE [statusCode |-> 404, statusMessage |-> "Not Found", location |-> << >>]

\* The control files the servers hold, [target, lines, sums]: the header
\* lines as zsyncmake writes them for each of the hash lengths, and these
\* with further lines before, between and after them: Safe lines, names the
\* program does not know, the headers of compressed streams, a required
\* version and a line without ": "
ControlFiles ==
    LET HeaderLines(t, bs, hl, ref) ==
            << << << "zsync" >>, "0.6.2" >>,
               << << "Blocksize" >>, bs >>,
               << << "Length" >>, Len(t) >>,
               << << "Hash-Lengths" >>, hl >>,
               << << "URL" >>, ref >> >>
        MoreLines ==
            {<< >>}
            \cup {<< << << "Safe" >>, v >> >> :
                    v \in {<< "X" >>, << "X", "Y" >>, << "Z-Map2" >>}}
            \cup {<< << k, 1 >> >> :
                    k \in {<< "X" >>, << "Z-Filename" >>, << "Z-URL" >>, << "Z-Map2" >>,
                           << "Recompress" >>}}
            \cup {<< << << "Min-Version" >>, << 48, 46, 55 >> >> >>,
                  << << << "not a header" >> >> >>}
        file(t, hl, lines) ==
            [target |-> t, lines |-> lines, sums |-> WireBlocks(t, 2, hl[2], hl[3], 0)]
        t0   == << 0, 2, 1 >>
        hl0  == << 1, 2, 3 >>
        base == HeaderLines(t0, 2, hl0, [file |-> "f"])
    IN  {file(t, hl, HeaderLines(t, 2, hl, ref)) :
            t \in {t0, << 1, 0, 0, 2 >>},
            hl \in {<< sm, rb, cb >> : sm \in {1, 2}, rb \in 1..4, cb \in {3, 16}},
            ref \in {[file |-> "f"], Url("h3", "e", "f")}}
        \cup {file(t0, hl0,
                   Sub(base, 0, at[1]) \o m1 \o Sub(base, at[1], at[2]) \o m2
                      \o Sub(base, at[2], 5)) :
                m1 \in MoreLines, m2 \in MoreLines,
                at \in {<< 0, 0 >>, << 0, 5 >>, << 3, 3 >>, << 3, 5 >>}}

\* main started on the URL of a control file: nothing is fetched yet
InitControl ==
    /\ target = << >>
    /\ cf = << >>
    /\ zs = << >>
    /\ zr = << >>
    /\ pc = "get"
    /\ fs = [p \in Paths |-> IF p = "out" THEN OldFile(<< 1, 0 >>) ELSE NoSuchFile]
    /\ fs0 = fs
    /\ seedfiles = << >>
    /\ i = 0
    /\ status = << >>
    /\ ok_urls = 0
    /\ r = << >>
    /\ io = [reads |-> << >>, requests |-> << >>, turn |-> 0]
    /\ added = {}
    /\ \E s \in Servers :
          http = [server |-> s, url |-> Url("h1", "a", "c.zsync"), referer |-> << >>, error |-> << >>,
                  fetched |-> FALSE, request |-> << >>]
    /\ call = << >>

\* read_zsync_control_file, one call of http_get: the request, the response
\* and what http_get makes of it; with the 200 response comes the control
\* file the server holds
HttpGet ==
    /\ pc = "get"
    /\ http' = http_get(http, Respond(http.server, http.url))
    /\ IF http'.error # << >> THEN pc' = "failed" /\ UNCHANGED << target, cf >>
       ELSE IF ~http'.fetched THEN UNCHANGED << pc, target, cf >>
       ELSE /\ pc' = "begin"
            /\ \E c \in ControlFiles :
                  /\ target' = c.target
                  /\ cf' = [lines |-> c.lines, sums |-> c.sums]
    /\ UNCHANGED << zs, zr, fs, fs0, seedfiles, i, status, ok_urls, r, io, added, call >>

\* read_zsync_control_file, zsync_begin on the fetched file: rcksum_init
\* makes the scratch file
ReadControl ==
    /\ pc = "begin"
    /\ LET b == zsync_begin_file(cf)
       IN  IF b.thrown
           THEN pc' = "failed" /\ UNCHANGED << zs, zr, fs >>
           ELSE /\ zs' = b.zs
                /\ zr' = zsync_begin_receive(b.zs)
                /\ fs' = [fs EXCEPT !["tmp"] = NewFile(<< >>)]
                /\ pc' = "url"
    /\ UNCHANGED << target, cf, fs0, seedfiles, i, status, ok_urls, r, io, added, http, call >>

\* fetch_remaining_blocks_http, the URL of the range fetch: a URL header of
\* the control file resolved against the referer
BlockUrl ==
    /\ pc = "url"
    /\ \E k \in 1..Len(zsync_get_urls(zs)) :
          http' = [http EXCEPT !.request = << Resolve(zsync_get_urls(zs)[k], http.referer[1]) >>]
    /\ pc' = "done"
    /\ UNCHANGED << target, cf, zs, zr, fs, fs0, seedfiles, i, status, ok_urls, r, io, added, call >>

NextControl == HttpGet \/ ReadControl \/ BlockUrl

SpecControl == InitControl /\ [][NextControl]_vars

(***************************************************************************)
(* The hash index driven directly: checksums entered with                  *)
(* rcksum_add_target_block after the index was built, between seed         *)
(* submissions and block submissions.  call is [name, prev, f, adds]: the  *)
(* call made last, the one made before it, the seed file of the call and   *)
(* the number of rcksum_add_target_block calls so far.                     *)
(***************************************************************************)

\* The number of rcksum_add_target_block calls made on a built index
MaxAdds == 1

\* The call name with the argument f, made after the call in the variable
Called(name, f) ==
    [name |-> name, prev |-> IF call = << >> THEN "" ELSE call.name, f |-> f,
     adds |-> (IF call = << >> THEN 0 ELSE call.adds)
                 + (IF name = "rcksum_add_target_block" THEN 1 ELSE 0)]

\* A session begun from the control file of one of the targets T with one
\* of the block sizes B
InitSession(T, B) ==
    /\ target \in T
    /\ \E bs \in B, hl \in LibHashLengths :
          cf = ControlFile(target, bs, hl, << >>, -1, << >>)
    /\ zs = zsync_begin(cf).zs
    /\ zr = zsync_begin_receive(zs)
    /\ pc = "lib"
    /\ fs = [p \in Paths |-> NoSuchFile]
    /\ fs0 = fs
    /\ seedfiles = << >>
    /\ i = 0
    /\ status = << >>
    /\ ok_urls = 0
    /\ r = << >>
    /\ io = [reads |-> << >>, requests |-> << >>, turn |-> 0]
    /\ added = {}
    /\ http = << >>
    /\ call = << >>

InitLib(T) == InitSession(T, BlockSizes)

\* The targets of MaxBlocks - 1 blocks
InitIndex == InitLib(UNION {{f, Sub(f, 0, Len(f) - 1)} : f \in BlockSeqs(MaxBlocks - 1)})

\* rcksum_submit_source_file on a seed file of one block or two
IndexSubmitSeed ==
    /\ \E f \in SeedFiles :
          /\ zs' = [zs EXCEPT !.rs = rcksum_submit_source_file(@, f)]
          /\ call' = Called("rcksum_submit_source_file", f)
    /\ UNCHANGED << target, cf, zr, pc, fs, fs0, seedfiles, i, status, ok_urls, r, io, added, http >>

\* rcksum_add_target_block once the index is built: block b of the target
\* is now the block blk, and its sums are entered
IndexAddTargetBlock ==
    /\ ~zs.rs.rsum_hash_null
    /\ call.adds < MaxAdds
    /\ \E b \in 0..(zs.rs.blocks - 1), blk \in BlockSet :
          LET bs   == zs.rs.blocksize
              file == [k \in 1..Len(target) |->
                          IF (k - 1) \div bs = b THEN blk[((k - 1) % bs) + 1] ELSE target[k]]
              data == PaddedBlock(file, bs, b)
          IN  /\ file # target
              /\ target' = file
              /\ zs' = [zs EXCEPT !.rs = rcksum_add_target_block(
                                           @, b, rcksum_calc_rsum_block(data, 0, bs),
                                           Sub(rcksum_calc_checksum(data), 0, zs.rs.checksum_bytes))]
    /\ call' = Called("rcksum_add_target_block", << >>)
    /\ UNCHANGED << cf, zr, pc, fs, fs0, seedfiles, i, status, ok_urls, r, io, added, http >>

\* rcksum_submit_blocks on the bytes of one block of the target
IndexSubmitBlocks ==
    /\ \E b \in 0..(zs.rs.blocks - 1) :
          LET res == rcksum_submit_blocks(zs.rs, PaddedBlock(target, zs.rs.blocksize, b), b, b)
          IN  /\ ~res.thrown
              /\ zs' = [zs EXCEPT !.rs = res.z]
    /\ call' = Called("rcksum_submit_blocks", << >>)
    /\ UNCHANGED << target, cf, zr, pc, fs, fs0, seedfiles, i, status, ok_urls, r, io, added, http >>

NextIndex == IndexSubmitSeed \/ IndexAddTargetBlock \/ IndexSubmitBlocks

SpecIndex == InitIndex /\ [][NextIndex]_vars

(***************************************************************************)
(* The receiver driven directly: zsync_receive_data on chunks of the       *)
(* target that do not overlap, in any order, and the zero-length call that *)
(* ends a download; and, apart from these, rcksum_submit_blocks on runs of *)
(* blocks one of which may be wrong.  call is [name, offset, len, m, ret, sent,          *)
(* covered]: the call made last with the offset and the length of its      *)
(* data, the first wrong block (-1: none) and the value returned; the      *)
(* bytes sent so far and the blocks that lie in a chunk which began on a   *)
(* block boundary.                                                         *)
(***************************************************************************)

\* The bytes and blocks of the chunks received before the call
BytesSent == IF call = << >> THEN {} ELSE call.sent

BlocksCovered == IF call = << >> THEN {} ELSE call.covered

\* zsync_receive_data on the bytes from .. to - 1 of the target
ReceiveChunk ==
    /\ \E from \in 0..(zs.filelen - 1) :
       \E to \in (from + 1)..zs.filelen :
          LET bs  == zs.blocksize
              res == zsync_receive_data(zs, zr, Sub(target, from, to), from, to - from)
          IN  /\ (from..(to - 1)) \cap BytesSent = {}
              /\ ~res.thrown
              /\ zs' = [zs EXCEPT !.rs = res.rs]
              /\ zr' = res.zr
              /\ call' = [name |-> "zsync_receive_data", offset |-> from, len |-> to - from,
                          m |-> -1, ret |-> res.ret,
                          sent |-> BytesSent \cup (from..(to - 1)),
                          covered |-> BlocksCovered \cup
                             (IF from % bs # 0 THEN {}
                              ELSE {b \in 0..(zs.blocks - 1) :
                                      from <= b * bs /\ (b + 1) * bs <= to})]
    /\ UNCHANGED << target, cf, pc, fs, fs0, seedfiles, i, status, ok_urls, r, io, added, http >>

\* fetch_remaining_blocks_http after the last chunk: zsync_receive_data with
\* no data at the offset where the last chunk ended; the next download has
\* a new receiver
ReceiveFlush ==
    /\ call # << >>
    /\ call.name = "zsync_receive_data"
    /\ call.len > 0
    /\ LET res == zsync_receive_data(zs, zr, << >>, call.offset + call.len, 0)
       IN  /\ ~res.thrown
           /\ zs' = [zs EXCEPT !.rs = res.rs]
           /\ zr' = zsync_begin_receive(zs)
           /\ call' = [call EXCEPT !.offset = call.offset + call.len, !.len = 0,
                                   !.ret = res.ret]
    /\ UNCHANGED << target, cf, pc, fs, fs0, seedfiles, i, status, ok_urls, r, io, added, http >>

\* rcksum_submit_blocks on the blocks bfrom to bto of the target, block m of
\* them with changed bytes (none when m is -1)
SubmitBlocks ==
    /\ \E bfrom \in 0..(zs.blocks - 1) :
       \E bto \in bfrom..(zs.blocks - 1) :
       \E m \in {-1} \cup (bfrom..bto) :
          LET bs   == zs.blocksize
              data == [k \in 1..((bto - bfrom + 1) * bs) |->
                         IF (bfrom * bs + k - 1) \div bs = m
                         THEN (At(target, bfrom * bs + k - 1) + 1) % 3
                         ELSE At(target, bfrom * bs + k - 1)]
              res  == rcksum_submit_blocks(zs.rs, data, bfrom, bto)
          IN  /\ ~res.thrown
              /\ zs' = [zs EXCEPT !.rs = res.z]
              /\ call' = [name |-> "rcksum_submit_blocks", offset |-> bfrom * bs,
                          len |-> (bto - bfrom + 1) * bs, m |-> m, ret |-> res.rc,
                          sent |-> BytesSent, covered |-> BlocksCovered]
    /\ UNCHANGED << target, cf, zr, pc, fs, fs0, seedfiles, i, status, ok_urls, r, io, added, http >>

NextReceive == ReceiveChunk \/ ReceiveFlush

SpecReceive == Init /\ [][NextReceive]_vars

NextBlocks == SubmitBlocks

SpecBlocks == Init /\ [][NextBlocks]_vars

(***************************************************************************)
(* rcksum_submit_source_file step by step: the refills of the buffer, the  *)
(* windows of rcksum_submit_source_data and the entries of the hash chains *)
(* of check_checksums_on_hash_chain.  call is the position in the scan:    *)
(* [name, f, pos, in2, buf, len, x, base, at, onlyone, got, seen, twice,   *)
(* hits, from] with the seed file f and the read position pos in it, the   *)
(* locals in2, buf, len, x, onlyone and got_blocks of the three functions, *)
(* the offset base in the seed file of buf[0], the place at in the code,   *)
(* the offsets in the seed file of the windows looked up so far (twice:    *)
(* one of them more than once), the hits [at, blocks] and the              *)
(* rcksum_state the scan began from.                                       *)
(***************************************************************************)

\* A block size at which the sum b of a block of bytes 255 passes 2^16
WideBlockSizes == {32}

\* Blocks of that size: bytes 255, and bytes 255 then bytes 0
WideBlocks ==
    UNION {{[k \in 1..bs |-> 255], [k \in 1..bs |-> IF 2 * k <= bs THEN 255 ELSE 0]} :
              bs \in WideBlockSizes}

\* The targets of two or three wide blocks
WideTargets ==
    {b1 \o b2 \o b3 : b1 \in WideBlocks, b2 \in WideBlocks, b3 \in WideBlocks \cup {<< >>}}

\* n bytes that are in no block of the modelled targets
Junk(n) == [k \in 1..n |-> 2]

\* The seed files of the scans: the target, and blocks of the targets
\* of two bytes around the place where the first buffer ends; for the wide
\* blocks the target, and the target one byte further on
ScanSeeds ==
    {target} \cup
    (IF zs.rs.blocksize \in WideBlockSizes
     THEN {<< 7 >> \o target}
     ELSE {Junk(n) \o << 0, 2, 1, 0, 0, 2 >> \o Junk(2) : n \in 26..31})

\* The targets of MaxBlocks + 1 blocks of two bytes, and those of wide
\* blocks
InitScan ==
    \/ InitSession(BlockSeqs(MaxBlocks + 1), BlockSizes)
    \/ InitSession(WideTargets, WideBlockSizes)

\* rcksum_submit_source_file up to its loop
ScanBegin ==
    /\ call = << >>
    /\ \E f \in ScanSeeds :
          call' = [name |-> "rcksum_submit_source_file", f |-> f, pos |-> 0, in2 |-> 0,
                   buf |-> Zeros(zs.rs.blocksize * BufBlocks + zs.rs.context),
                   len |-> 0, x |-> 0, base |-> 0, at |-> "read", onlyone |-> FALSE,
                   got |-> 0, seen |-> {}, twice |-> FALSE, hits |-> {}, from |-> zs.rs]
    /\ zs' = [zs EXCEPT !.rs = IF @.rsum_hash_null THEN build_hash(@) ELSE @]
    /\ UNCHANGED << target, cf, zr, pc, fs, fs0, seedfiles, i, status, ok_urls, r, io, added, http >>

\* One turn of "while (!await feof(f))" up to the loop of
\* rcksum_submit_source_data: the buffer is filled and the window is set
ScanRead ==
    /\ call # << >>
    /\ call.at = "read"
    /\ LET z       == zs.rs
           bufsize == z.blocksize * BufBlocks
           first   == call.in2 = 0
           room    == IF first THEN bufsize ELSE bufsize - z.context
           n       == Min(room, Len(call.f) - call.pos)
           buf1    == IF first THEN call.buf
                      ELSE BufSet(call.buf, 0, Sub(call.buf, bufsize - z.context, bufsize))
           buf2    == BufSet(buf1, IF first THEN 0 ELSE z.context,
                             Sub(call.f, call.pos, call.pos + n))
           len     == IF first THEN n ELSE z.context + n
           eof     == call.pos + n >= Len(call.f)
           buf3    == IF eof
                      THEN BufSet(buf2, len, Sub(Zeros(z.context), 0, Len(call.buf) - len))
                      ELSE buf2
           x       == IF call.in2 # 0 THEN z.skip ELSE 0
           z1      == IF call.in2 # 0 THEN z ELSE [z EXCEPT !.next_match = -1]
           z2      == IF x # 0 \/ call.in2 = 0 THEN calc_sums(z1, buf3, x, TRUE) ELSE z1
       IN  IF call.pos >= Len(call.f)
           THEN call' = [call EXCEPT !.at = "done"] /\ zs' = zs
           ELSE /\ zs' = [zs EXCEPT !.rs = [z2 EXCEPT !.skip = 0]]
                /\ call' = [call EXCEPT
                              !.pos = call.pos + n,
                              !.in2 = IF first THEN len ELSE call.in2 + bufsize - z.context,
                              !.buf = buf3,
                              !.len = IF eof THEN len + z.context ELSE len,
                              !.x = x,
                              !.base = IF first THEN 0 ELSE call.in2 - z.context,
                              !.at = "window"]
    /\ UNCHANGED << target, cf, zr, pc, fs, fs0, seedfiles, i, status, ok_urls, r, io, added, http >>

\* The end of the turn with no hint left in z.skip when the hit's skip
\* passes the end of the buffer
ScanAdvance_nohint(z, c, bm) ==
    LET bs == z.blocksize
        x2 == c.x + bs + (IF bm > 1 THEN bs ELSE 0)
        c1 == [c EXCEPT !.hits = @ \cup {[at |-> c.base + c.x, blocks |-> bm]}]
    IN  IF bm = 0
        THEN [z |-> roll(z, c.buf, c.x), c |-> [c EXCEPT !.x = c.x + 1, !.at = "window"]]
        ELSE IF x2 + z.context > c.len
        THEN [z |-> z, c |-> [c1 EXCEPT !.at = "read"]]
        ELSE [z |-> IF z.seq_matches > 1 /\ bm = 1
                    THEN calc_sums([z EXCEPT !.r[1] = z.r[2]], c.buf, x2, FALSE)
                    ELSE calc_sums(z, c.buf, x2, TRUE),
              c |-> [c1 EXCEPT !.x = x2, !.at = "window"]]

\* rcksum_submit_source_data from "if (blocks_matched !== 0)" to the end of
\* the turn, with blocks_matched = bm: [z, c], the state and the position
ScanAdvance(z, c, bm) ==
    LET bs == z.blocksize
        x2 == c.x + bs + (IF bm > 1 THEN bs ELSE 0)
        c1 == [c EXCEPT !.hits = @ \cup {[at |-> c.base + c.x, blocks |-> bm]}]
    IN  IF bm = 0
        THEN [z |-> roll(z, c.buf, c.x), c |-> [c EXCEPT !.x = c.x + 1, !.at = "window"]]
        ELSE IF x2 + z.context > c.len
        THEN [z |-> [z EXCEPT !.skip = x2 + z.context - c.len], c |-> [c1 EXCEPT !.at = "read"]]
        ELSE [z |-> IF z.seq_matches > 1 /\ bm = 1
                    THEN calc_sums([z EXCEPT !.r[1] = z.r[2]], c.buf, x2, FALSE)
                    ELSE calc_sums(z, c.buf, x2, TRUE),
              c |-> [c1 EXCEPT !.x = x2, !.at = "window"]]

\* rcksum_submit_source_data, "if (thismatch === 0)": the look-up in the
\* bit table and the hash table; on a hit check_checksums_on_hash_chain
\* begins on the chain
ScanLookup(z, c) ==
    LET hash == window_hash(z)
        e    == Bucket(z, hash % (z.hashmask + 1))
    IN  IF ~z.bithash_null /\ (hash % (z.bithashmask + 1)) \in z.bithash /\ e # -1
        THEN [z |-> [z EXCEPT !.next_match = -1, !.rover = e],
              c |-> [c EXCEPT !.at = "chain", !.onlyone = FALSE, !.got = 0]]
        ELSE ScanAdvance(z, c, 0)

\* The step to [z, c]
ScanTo(n) ==
    /\ zs' = [zs EXCEPT !.rs = n.z]
    /\ call' = n.c
    /\ UNCHANGED << target, cf, zr, pc, fs, fs0, seedfiles, i, status, ok_urls, r, io, added, http >>

\* The top of "for (;;)": the data is used up, or the window is tried on
\* z.next_match, or it is looked up
ScanWindow ==
    /\ call # << >>
    /\ call.at = "window"
    /\ LET z == zs.rs
           c == [call EXCEPT !.seen = @ \cup {call.base + call.x},
                             !.twice = @ \/ (call.base + call.x) \in call.seen]
       IN  IF call.x + z.context = call.len
           THEN ScanTo([z |-> z, c |-> [call EXCEPT !.at = "read"]])
           ELSE IF z.next_match # -1 /\ z.seq_matches > 1
           THEN ScanTo([z |-> [z EXCEPT !.next_match = -1, !.rover = z.next_match],
                        c |-> [c EXCEPT !.at = "chain", !.onlyone = TRUE, !.got = 0]])
           ELSE ScanTo(ScanLookup(z, c))

\* check_checksums_on_hash_chain, one turn of "while (z.rover != null)"
ScanEntry ==
    /\ call # << >>
    /\ call.at = "chain"
    /\ zs.rs.rover # -1
    /\ LET z == zs.rs
           m == check_entry([z EXCEPT !.rover = IF call.onlyone THEN -1
                                                ELSE z.blockhashes[z.rover + 1].next],
                            z.rover, call.buf, call.x, call.onlyone)
       IN  ScanTo([z |-> m.z, c |-> [call EXCEPT !.got = @ + m.got]])

\* check_checksums_on_hash_chain returns got_blocks: after the try on
\* z.next_match the window is looked up if nothing was got
ScanChainEnd ==
    /\ call # << >>
    /\ call.at = "chain"
    /\ zs.rs.rover = -1
    /\ IF call.onlyone
       THEN IF call.got # 0 THEN ScanTo(ScanAdvance(zs.rs, call, 1))
            ELSE ScanTo(ScanLookup(zs.rs, call))
       ELSE ScanTo(ScanAdvance(zs.rs, call, IF call.got # 0 THEN zs.rs.seq_matches ELSE 0))

NextScan == ScanBegin \/ ScanRead \/ ScanWindow \/ ScanEntry \/ ScanChainEnd

SpecScan == InitScan /\ [][NextScan]_vars

(***************************************************************************)
(* http_get after the 200 response, event by event: the file is open for   *)
(* writing and the handlers of 'data' and 'end' are set.  call is the call *)
(* of http_get: the chunks of the response body, the number got of 'data'  *)
(* events so far, the FILE file with its handle's content, the writes      *)
(* pending on the handle, [k, pos] for chunk k written at position pos,    *)
(* all the writes begun so far, and what has become of the 'end' handler:  *)
(* ended when fclose is called, closed when the handle is closed, handed   *)
(* the content of the file read by the FILE the promise resolves to.       *)
(* A handler runs up to its await in one step; a write on the handle       *)
(* completes whenever the thread pool is done with it, in any order, and   *)
(* the rest of fwrite runs with the completion.  FileHandle.close() waits  *)
(* for the operations pending on the handle.                               *)
(***************************************************************************)

\* The longest response body, in chunks
MaxChunks == 3

\* The chunks of the response bodies
Chunks == {<< 1 >>, << 2, 3 >>}

\* The response bodies
Bodies == UNION {[1..n -> Chunks] : n \in 1..MaxChunks}

\* handle.write(buffer, 0, length, position) done on the content of a file
WriteAt(content, pos, buffer) ==
    LET end == pos + Len(buffer)
    IN  [k \in 1..(IF Len(content) > end THEN Len(content) ELSE end) |->
            IF k > pos /\ k <= end THEN buffer[k - pos] ELSE At(content, k - 1)]

\* http_get up to the return of the response callback
InitGet ==
    /\ target = << >>
    /\ cf = << >>
    /\ zs = << >>
    /\ zr = << >>
    /\ pc = "get"
    /\ fs = [p \in Paths |-> NoSuchFile]
    /\ fs0 = fs
    /\ seedfiles = << >>
    /\ i = 0
    /\ status = << >>
    /\ ok_urls = 0
    /\ r = << >>
    /\ io = [reads |-> << >>, requests |-> << >>, turn |-> 0]
    /\ added = {}
    /\ http = << >>
    /\ \E body \in Bodies :
          call = [name |-> "http_get", body |-> body, got |-> 0,
                  file |-> [content |-> << >>, position |-> 0],
                  pending |-> {}, writes |-> {},
                  ended |-> FALSE, closed |-> FALSE, handed |-> << >>]

\* res.on("data"): fwrite up to its await: the write of the chunk on the
\* handle begins at file.position
GetData ==
    /\ call.got < Len(call.body)
    /\ LET w == [k |-> call.got + 1, pos |-> call.file.position]
       IN  call' = [call EXCEPT !.got = @ + 1,
                                !.pending = @ \cup {w},
                                !.writes = @ \cup {w}]
    /\ UNCHANGED << lib, fs, fs0, seedfiles, i, status, ok_urls, r, io, added, http >>

\* A write pending on the handle completes, and fwrite goes on after its
\* await: file.position += result.bytesWritten
GetWritten ==
    /\ \E w \in call.pending :
          call' = [call EXCEPT
                     !.pending = @ \ {w},
                     !.file.content = WriteAt(@, w.pos, call.body[w.k]),
                     !.file.position = @ + Len(call.body[w.k])]
    /\ UNCHANGED << lib, fs, fs0, seedfiles, i, status, ok_urls, r, io, added, http >>

\* res.on("end") up to its first await: fclose calls file.handle.close()
GetEnd ==
    /\ call.got = Len(call.body)
    /\ ~call.ended
    /\ call' = [call EXCEPT !.ended = TRUE]
    /\ UNCHANGED << lib, fs, fs0, seedfiles, i, status, ok_urls, r, io, added, http >>

\* The handle is closed once nothing is pending on it, and the 'end'
\* handler goes on: file.closed = true, and the promise of http_get
\* resolves to the file opened for reading
GetClosed ==
    /\ call.ended
    /\ ~call.closed
    /\ call.pending = {}
    /\ call' = [call EXCEPT !.closed = TRUE, !.handed = << call.file.content >>]
    /\ UNCHANGED << lib, fs, fs0, seedfiles, i, status, ok_urls, r, io, added, http >>

NextGet == GetData \/ GetWritten \/ GetEnd \/ GetClosed

SpecGet == InitGet /\ [][NextGet]_vars

(***************************************************************************)
(* Properties of the library runs.                                         *)
(***************************************************************************)

\* The content of block b in the scratch file
ScratchBlock(z, b) == [k \in 1..z.blocksize |-> At(z.fd, b * z.blocksize + k - 1)]

\* C1: every block recorded in the known ranges has scratch content whose
\* MD4, truncated to checksum_bytes, is the block's strong checksum of the
\* control file.
C1_KnownBlocksVerified ==
    \A b \in KnownBlocks(zs.rs) :
        Sub(MD4(ScratchBlock(zs.rs, b)), 0, zs.rs.checksum_bytes)
            = zs.rs.blockhashes[b + 1].checksum

\* C10: the set of known blocks only grows and zsync_status never decreases;
\* the status is 0 exactly when no block is known and 2 exactly when all
\* blocks are known.
C10_StatusMonotonic ==
    /\ [][/\ KnownBlocks(zs.rs) \subseteq KnownBlocks(zs'.rs)
          /\ zsync_status(zs') >= zsync_status(zs)]_vars
    /\ [](/\ zsync_status(zs) = 0 <=> KnownBlocks(zs.rs) = {}
          /\ zsync_status(zs) = 2 <=> KnownBlocks(zs.rs) = 0..(zs.blocks - 1))

\* C10: two separate known ranges with a gap between them
C10_Witness ==
    /\ zsync_status(zs) = 1
    /\ zs.rs.numranges = 2
    /\ KnownBlocks(zs.rs) # {}

(***************************************************************************)
(* Properties of the runs of the program.                                  *)
(***************************************************************************)

\* The control file is a valid one for the target: no SHA-1 header, or the
\* digest of the target as node:crypto prints it
GoodControl == cf.SHA1 \in {<< >>, Hex(SHA1(target))}

\* Every request so far was answered with the bytes of the target
HonestRemote == \A k \in 1..Len(io.requests) : io.requests[k].answer = "ok"

\* The program was given one seed file only, with this content
SingleSeed(data) ==
    /\ pc # "start"
    /\ Len(seedfiles) = 1
    /\ fs0[seedfiles[1]].data = data

\* The seed loop is over and nothing has been requested yet
SeedsRead == pc = "fetch" /\ io.requests = << >>

\* The blocks of the target
TargetBlocks == 0..(NumBlocks(cf.Length, cf.Blocksize) - 1)

\* main's seed loop on the seed files in the order files, as a function of
\* the session z
RECURSIVE seed_loop(_, _, _)
seed_loop(z, files, k) ==
    IF ~(k < Len(files) /\ zsync_status(z) < 2) THEN z
    ELSE seed_loop(IF is_dup(files, k) THEN z
                   ELSE zsync_submit_source_file(z, fs0[At(files, k)].data),
                   files, k + 1)

\* zsync_submit_source_file on each of the files in turn, none left out
RECURSIVE submit_each(_, _, _)
submit_each(z, files, k) ==
    IF ~(k < Len(files) /\ zsync_status(z) < 2) THEN z
    ELSE submit_each(zsync_submit_source_file(z, fs0[At(files, k)].data), files, k + 1)

\* The orders of a list
Orders(files) ==
    {[k \in 1..Len(files) |-> files[p[k]]] :
        p \in {q \in [1..Len(files) -> 1..Len(files)] :
                 \A a, b \in 1..Len(files) : a # b => q[a] # q[b]}}

\* The list without the entries equal to an earlier one
RECURSIVE Distinct(_)
Distinct(files) ==
    IF files = << >> THEN << >>
    ELSE LET front == Distinct(Sub(files, 0, Len(files) - 1))
             last  == files[Len(files)]
         IN  IF \E k \in 1..Len(front) : front[k] = last THEN front
             ELSE Append(front, last)

\* The seed file with this content holds block b of the target: its bytes
\* are in the file and, when the block is the short last one, the file ends
\* with them
HoldsBlock(data, b) ==
    LET bytes == Sub(target, b * cf.Blocksize, (b + 1) * cf.Blocksize)
    IN  \E at \in 0..Len(data) :
           /\ Sub(data, at, at + Len(bytes)) = bytes
           /\ (Len(bytes) < cf.Blocksize => at + Len(bytes) = Len(data))

\* The seed files hold every block of the target between them
JointlyComplete ==
    \A b \in TargetBlocks :
        \E k \in 1..Len(seedfiles) : HoldsBlock(fs0[seedfiles[k]].data, b)

\* C2: with a valid control file and the target itself as the only seed, the
\* status is complete after the seed, no byte range is requested and the
\* final file is the target.
C2_SeedEqualToTarget ==
    (SingleSeed(target) /\ GoodControl) =>
        /\ io.requests = << >>
        /\ (pc = "fetch" => zsync_status(zs) = 2)
        /\ (pc = "done" => fs["out"].data = target)

\* C3: with the first half of the target as the only seed, exactly one byte
\* range is requested, from the end of the seed to the last byte of the
\* file, and the final file is the target.
C3_SeedFirstHalf ==
    (/\ SingleSeed(FirstHalf(target, cf.Blocksize))
     /\ NumBlocks(cf.Length, cf.Blocksize) % 2 = 0
     /\ GoodControl /\ HonestRemote) =>
        /\ Len(io.requests) <= 1
        /\ \A k \in 1..Len(io.requests) :
              io.requests[k].ranges = << HalfOffset(target, cf.Blocksize), cf.Length - 1 >>
        /\ (pc \in {"finalize", "done"} => Len(io.requests) = 1)
        /\ (pc = "done" => fs["out"].data = target)

\* C4: with the target in which the blocks F are altered as the only seed,
\* the blocks to request are exactly F and the final file is the target.
C4_SeedWithAlteredBlocks ==
    \A F \in (SUBSET TargetBlocks) \ {{}} :
        (/\ SingleSeed(Altered(target, cf.Blocksize, F))
         /\ GoodControl /\ HonestRemote) =>
            /\ (SeedsRead => TargetBlocks \ KnownBlocks(zs.rs) = F)
            /\ (pc = "done" => fs["out"].data = target)

\* C5: the seed files read in any other order give the same known blocks and
\* the same scratch content; if they hold every block between them the
\* target is complete without a request.
C5_SeedOrder ==
    SeedsRead =>
        /\ \A files \in Orders(seedfiles) :
              LET o == seed_loop(zsync_begin(cf).zs, files, 0)
              IN  /\ KnownBlocks(o.rs) = KnownBlocks(zs.rs)
                  /\ o.rs.fd = zs.rs.fd
        /\ (JointlyComplete /\ GoodControl => zsync_status(zs) = 2)

\* C6: a seed file named twice is read once, and the known ranges, the
\* scratch content and the byte ranges to request are those of the list
\* that names it once.
C6_DuplicateSeed ==
    /\ \A a, b \in 1..Len(io.reads) : a # b => io.reads[a] # io.reads[b]
    /\ SeedsRead =>
          LET o == submit_each(zsync_begin(cf).zs, Distinct(seedfiles), 0)
          IN  /\ o.rs.ranges = zs.rs.ranges
              /\ o.rs.fd = zs.rs.fd
              /\ zsync_needed_byte_ranges(o) = zsync_needed_byte_ranges(zs)

\* C6: the seed loop has passed both entries of a list that names one file
\* twice, and blocks are left to fetch
C6_Witness ==
    /\ SeedsRead
    /\ seedfiles = << "seed1", "seed1" >>
    /\ i = 2
    /\ io.reads = << "seed1" >>
    /\ zsync_status(zs) = 1

\* C7: when zsync_complete reports a SHA-1 mismatch the program fails, the
\* scratch file stays at the .part name and the old output file is neither
\* backed up nor replaced nor given another mtime.
C7_ChecksumMismatch ==
    (r = << -1 >>) =>
        /\ pc = "failed"
        /\ fs["out.part"].exists
        /\ fs["out.part"].data = Truncate(zs.rs.fd, cf.Length)
        /\ fs["out"] = fs0["out"]
        /\ fs["out.zs-old"] = fs0["out.zs-old"]

\* C7: the mismatch is reported after a download, with an old output file
\* in place
C7_Witness ==
    /\ r = << -1 >>
    /\ fs0["out"].exists
    /\ Len(io.requests) > 0

\* C8: when the fetch ends with every URL failed and blocks still missing,
\* the program fails and the scratch file is not moved onto the output file.
C8_UrlsExhausted ==
    (/\ Len(status) > 0 /\ ok_urls = 0
     /\ r # << >>
     /\ rcksum_blocks_todo(zs.rs) > 0) =>
        /\ pc = "failed"
        /\ fs["out"] = fs0["out"]

\* The bytes a hex string stands for, in either case
HexBytes(hex) ==
    [k \in 1..(Len(hex) \div 2) |-> 16 * HexValue(hex[2 * k - 1]) + HexValue(hex[2 * k])]

\* C9: zsync_complete truncates the scratch file to the length of the target
\* and returns 1 exactly when the SHA-1 header is there and is the digest of
\* the file, -1 exactly when it is there and is not, 0 exactly when it is
\* not there.
C9_CompleteResult ==
    (r # << >> /\ pc \in {"finalize", "failed"}) =>
        LET file  == fs["out.part"].data
            there == cf.SHA1 # << >>
            equal == HexBytes(cf.SHA1) = SHA1(file)
        IN  /\ Len(file) = cf.Length
            /\ (r[1] = 1 <=> (there /\ equal))
            /\ (r[1] = -1 <=> (there /\ ~equal))
            /\ (r[1] = 0 <=> ~there)

(***************************************************************************)
(* Properties of the known ranges.                                         *)
(***************************************************************************)

\* The total size of the known ranges
RECURSIVE RangesSize(_, _)
RangesSize(rs, k) ==
    IF k >= rs.numranges THEN 0
    ELSE (At(rs.ranges, 2 * k + 1) - At(rs.ranges, 2 * k) + 1) + RangesSize(rs, k + 1)

\* C11: between the operations of the library rcksum_blocks_todo is the
\* number of blocks less the total size of the known ranges, is the number
\* of blocks less gotblocks, and lies between 0 and the number of blocks.
C11_BlocksTodo ==
    /\ rcksum_blocks_todo(zs.rs) = zs.rs.blocks - RangesSize(zs.rs, 0)
    /\ rcksum_blocks_todo(zs.rs) = zs.rs.blocks - zs.rs.gotblocks
    /\ rcksum_blocks_todo(zs.rs) \in 0..zs.rs.blocks

\* C11: two blocks are known, in two ranges, and data has been received
C11_Witness ==
    /\ zs.rs.numranges = 2
    /\ zs.rs.gotblocks = 2
    /\ rcksum_blocks_todo(zs.rs) = zs.rs.blocks - 2
    /\ zr.outoffset > 0

\* The end of the run of unknown blocks that starts at block x
RECURSIVE RunEnd(_, _)
RunEnd(rs, x) ==
    IF x + 1 < rs.blocks /\ (x + 1) \notin KnownBlocks(rs) THEN RunEnd(rs, x + 1) ELSE x

\* The closed byte ranges of the maximal runs of unknown blocks from block x
\* on, in ascending order, as the flat list lo0, hi0, lo1, hi1, ...
RECURSIVE MissingByteRanges(_, _)
MissingByteRanges(z, x) ==
    IF x >= z.rs.blocks THEN << >>
    ELSE IF x \in KnownBlocks(z.rs) THEN MissingByteRanges(z, x + 1)
    ELSE << x * z.blocksize, (RunEnd(z.rs, x) + 1) * z.blocksize - 1 >>
            \o MissingByteRanges(z, RunEnd(z.rs, x) + 1)

\* C12: zsync_needed_byte_ranges returns, in ascending order, the closed byte
\* range [lo * blocksize, (hi + 1) * blocksize - 1] of each maximal run
\* lo..hi of blocks outside the known ranges and nothing else; with no block
\* known that is the one range [0, blocks * blocksize - 1].
C12_NeededByteRanges ==
    /\ zsync_needed_byte_ranges(zs) = MissingByteRanges(zs, 0)
    /\ (zs.rs.numranges = 0 =>
           zsync_needed_byte_ranges(zs) = << 0, zs.rs.blocks * zs.blocksize - 1 >>)

\* C13: on a session with every block known zsync_needed_byte_ranges returns
\* the empty list.
C13_CompleteNoRanges ==
    zsync_status(zs) = 2 => zsync_needed_byte_ranges(zs) = << >>

\* The range list and the counters add_to_ranges works on
RangeList(rs) == << rs.ranges, rs.numranges, rs.gotblocks >>

\* C14: add_to_ranges is commutative and idempotent on every range list it
\* can build: two block ids inserted in either order give the same range
\* list and gotblocks, and a block id inserted twice gives what it gives
\* inserted once.
C14_InsertCommutes ==
    \A x, y \in 0..(zs.rs.blocks - 1) :
        /\ RangeList(add_to_ranges(add_to_ranges(zs.rs, x), y))
              = RangeList(add_to_ranges(add_to_ranges(zs.rs, y), x))
        /\ RangeList(add_to_ranges(add_to_ranges(zs.rs, x), x))
              = RangeList(add_to_ranges(zs.rs, x))

\* C14: a range list built by add_to_ranges with a hole of one block between
\* two ranges, which an insertion fills
C14_Witness ==
    /\ pc = "ranges"
    /\ added = {0, 2, 3}
    /\ zs.rs.ranges = << 0, 0, 2, 3 >>
    /\ zs.rs.blocks > 4

\* The block ids the stored pairs of the range list cover
RangeUnion(rs) ==
    UNION {At(rs.ranges, 2 * k)..At(rs.ranges, 2 * k + 1) : k \in 0..(rs.numranges - 1)}

\* C15: after any sequence of add_to_ranges calls the ranges are ascending,
\* lo <= hi in each and hi + 1 < lo of the next (sorted, disjoint, adjacent
\* ranges merged), numranges is the number of stored pairs and the union of
\* the ranges is exactly the set of block ids inserted.
C15_RangesWellFormed ==
    /\ Len(zs.rs.ranges) = 2 * zs.rs.numranges
    /\ \A k \in 0..(zs.rs.numranges - 1) :
          /\ At(zs.rs.ranges, 2 * k) <= At(zs.rs.ranges, 2 * k + 1)
          /\ (k + 1 < zs.rs.numranges =>
                 At(zs.rs.ranges, 2 * k + 1) + 1 < At(zs.rs.ranges, 2 * k + 2))
    /\ RangeUnion(zs.rs) = added

\* C15: three ranges built by insertions below, above and between ranges
C15_Witness ==
    /\ pc = "ranges"
    /\ added = {0, 1, 3, 5}
    /\ zs.rs.ranges = << 0, 1, 3, 3, 5, 5 >>
    /\ zs.rs.numranges = 3

\* The known block ids from x on
KnownFrom(rs, x) == {y \in KnownBlocks(rs) : y >= x}

\* C16: next_known_block(x) is x when x is in a known range, otherwise the
\* smallest known block id greater than x, and the number of blocks when no
\* known block id is x or more.
C16_NextKnownBlock ==
    \A x \in 0..zs.rs.blocks :
        next_known_block(zs.rs, x) =
            IF KnownFrom(zs.rs, x) = {} THEN zs.rs.blocks
            ELSE CHOOSE y \in KnownFrom(zs.rs, x) : \A w \in KnownFrom(zs.rs, x) : y <= w

\* C16: known blocks with unknown ones before, between and after them
C16_Witness ==
    /\ pc = "ranges"
    /\ added = {1, 4}
    /\ zs.rs.blocks = 6
    /\ next_known_block(zs.rs, 0) = 1
    /\ next_known_block(zs.rs, 4) = 4
    /\ next_known_block(zs.rs, 5) = 6

(***************************************************************************)
(* Properties of the download.                                             *)
(***************************************************************************)

\* The index of a URL in the list of the control file
UrlIndex(u) == CHOOSE k \in 0..(Len(zsync_get_urls(zs)) - 1) : At(zsync_get_urls(zs), k) = u

\* The URL has failed: fetch_remaining_blocks has set its status to 1
Failed(k) == At(status, k) = << 1 >>

\* C17: once a fetch from a URL has failed, fetch_remaining_blocks sends no
\* further request to that URL: every request goes to a URL that has not
\* failed yet.
C17_FailedUrlNotRetried ==
    [][\A k \in (Len(io.requests) + 1)..Len(io'.requests) :
          ~Failed(UrlIndex(io'.requests[k].url))]_vars

\* The request this step has sent: the last one of the log, if the log grew
Sent == io'.requests[Len(io'.requests)]

\* C18: when the range request to the chosen URL fails (connection error or
\* a status other than 206) and another URL has not failed, the chosen URL
\* is marked failed and the session goes on with the fetch loop: the failure
\* does not abort it.
C18_RequestFailureTolerated ==
    [][(/\ Len(io'.requests) > Len(io.requests)
        /\ Sent.answer = "error"
        /\ \E j \in 0..(Len(status) - 1) : j # UrlIndex(Sent.url) /\ ~Failed(j))
       => (/\ pc' = "fetch"
           /\ At(status', UrlIndex(Sent.url)) = << 1 >>)]_vars

\* Request k asks for block b
Covers(k, b) ==
    \E j \in 1..(Len(io.requests[k].ranges) \div 2) :
        /\ io.requests[k].ranges[2 * j - 1] <= b * cf.Blocksize
        /\ (b + 1) * cf.Blocksize - 1 <= io.requests[k].ranges[2 * j]

\* The last block of the target, the one a corrupt copy differs in
LastBlock == NumBlocks(cf.Length, cf.Blocksize) - 1

\* The bytes of the last block in a file that ends on a block boundary
LastBlockOf(file) == Sub(file, LastBlock * cf.Blocksize, Len(file))

\* The data received for request k had a strong-checksum mismatch in
\* rcksum_submit_blocks: the server holds the corrupt copy, the last block
\* was asked for and arrived whole, and its MD4 is not that of the target's
Mismatch(k) ==
    /\ io.requests[k].answer = "corrupt"
    /\ Covers(k, LastBlock)
    /\ cf.Length % cf.Blocksize = 0
    /\ Sub(rcksum_calc_checksum(LastBlockOf(Corrupt(target))), 0, cf.HashLengths[3])
          # Sub(rcksum_calc_checksum(LastBlockOf(target)), 0, cf.HashLengths[3])

\* C19: after a strong-checksum mismatch on received data the block is not
\* marked known, and it is requested again later in the session: when the
\* fetch loop is over every mismatch was followed by a request for the block.
C19_MismatchRequestedAgain ==
    /\ (pc = "fetch" /\ io.requests # << >> /\ Mismatch(Len(io.requests)))
          => LastBlock \notin KnownBlocks(zs.rs)
    /\ (r # << >>) =>
          \A k \in 1..Len(io.requests) :
              Mismatch(k) => \E k2 \in (k + 1)..Len(io.requests) : Covers(k2, LastBlock)

\* fetch_remaining_blocks is about to return: its loop condition is false
FetchReturns == pc = "fetch" /\ ~(zsync_status(zs) < 2 /\ ok_urls # 0)

\* C20: when every range fetch ends, fetch_remaining_blocks is left in the
\* end, also after a fetch that ended without error and without a new
\* block; and when it returns the status is complete or every URL of the
\* control file has been tried and has failed.
C20_FetchLoopEnds ==
    /\ (pc = "fetch") ~> (pc # "fetch")
    /\ [](FetchReturns =>
            \/ zsync_status(zs) = 2
            \/ \A k \in 0..(Len(zsync_get_urls(zs)) - 1) : Failed(k))

(***************************************************************************)
(* Properties of the session as a whole.                                   *)
(***************************************************************************)

\* C21: an error while opening a seed file does not abort the session: the
\* seed is skipped without a change of the known blocks, and the seed loop
\* goes on with the next seed file.
C21_SeedErrorSkipped ==
    [][(/\ pc = "seeds"
        /\ i < Len(seedfiles)
        /\ zsync_status(zs) < 2
        /\ ~fs[At(seedfiles, i)].exists)
       => (/\ pc' = "seeds"
           /\ i' = i + 1
           /\ zs' = zs)]_vars

(***************************************************************************)
(* Properties of the fetch and the reading of the control file.            *)
(***************************************************************************)

\* The response to the request http_get sends next, or has sent last
Answer == Respond(http.server, http.url)

\* C22: http_get follows every 301, 302 and 307 response with a Location
\* header to that location, up to a 200 response; afterwards the referer is
\* the URL that gave the 200 response, and the URL of a range fetch is the
\* URL header resolved against it.
C22_RedirectsFollowed ==
    /\ [][(/\ pc = "get"
           /\ Answer.statusCode \in {301, 302, 307}
           /\ Answer.location # << >>)
          => (/\ pc' = "get"
              /\ http'.url = Resolve(Answer.location[1], http.url))]_vars
    /\ [](pc \in {"begin", "url", "done"} =>
            (Answer.statusCode = 200 /\ http.referer = << http.url >>))
    /\ [](pc = "done" =>
            \E k \in 1..Len(zs.url) : http.request = << Resolve(zs.url[k], http.url) >>)

\* C22: two redirects were followed, and the file name of the URL header
\* was resolved on the host of the last location
C22_Witness ==
    /\ pc = "done"
    /\ http.server[Url("h1", "a", "c.zsync")].statusCode = 301
    /\ http.server[Url("h1", "a", "c.zsync")].location = << [file |-> "d.zsync"] >>
    /\ http.server[Url("h1", "a", "d.zsync")].statusCode = 307
    /\ http.url = Url("h2", "b", "d.zsync")
    /\ http.request = << Url("h2", "b", "f") >>

\* C23: a 301, 302 or 307 response without Location header and a response
\* with a status other than 200, 301, 302 and 307 make the session fail with
\* an error that names the cause; no scratch file is made and the target is
\* not written.
C23_ControlFetchFails ==
    /\ [][(/\ pc = "get"
           /\ \/ Answer.statusCode \in {301, 302, 307} /\ Answer.location = << >>
              \/ Answer.statusCode \notin {200, 301, 302, 307})
          => (/\ pc' = "failed"
              /\ http'.error =
                    IF Answer.statusCode \in {301, 302, 307}
                    THEN << "HTTP redirect has no location header" >>
                    ELSE << "HTTP request failed with status", http.url,
                            Answer.statusCode, Answer.statusMessage >>
              /\ fs' = fs)]_vars
    /\ []((pc = "failed" /\ ~http.fetched) => (~fs["tmp"].exists /\ fs = fs0))

\* C23: the location of a redirect answered with the status 500
C23_Witness ==
    /\ pc = "failed"
    /\ http.url = Url("h1", "a", "d.zsync")
    /\ http.error = << "HTTP request failed with status", Url("h1", "a", "d.zsync"),
                       500, "Internal Server Error" >>
    /\ ~fs["tmp"].exists

\* zsync_begin has read the control file and taken it, or has thrown
Accepted == pc \in {"url", "done"}

Rejected == pc = "failed" /\ http.fetched

\* The names zsync_begin knows
KnownNames ==
    {<< n >> : n \in {"zsync", "Min-Version", "Length", "Filename", "Z-Filename", "URL",
                       "Z-URL", "Blocksize", "Hash-Lengths", "Z-Map2", "SHA-1", "Safe",
                       "Recompress", "MTime"}}

\* The header lines of the control file with the name key
LinesOf(key) == {k \in 1..Len(cf.lines) : Len(cf.lines[k]) = 2 /\ cf.lines[k][1] = key}

\* The control file holds only headers that zsync_begin takes, Safe headers
\* and headers with unknown names
NothingElseWrong ==
    \A k \in 1..Len(cf.lines) :
        /\ Len(cf.lines[k]) = 2
        /\ cf.lines[k][1] \notin {<< "Z-Filename" >>, << "Z-URL" >>, << "Z-Map2" >>,
                                   << "Recompress" >>, << "Min-Version" >>}

\* C24: whether a control file is accepted does not depend on the order of
\* its headers: it is accepted when every header with an unknown name is
\* named in a Safe header, before or after it, and rejected when a header
\* with an unknown name is named in no Safe header.
C24_SafeAnyOrder ==
    ((Accepted \/ Rejected) /\ NothingElseWrong) =>
        (Accepted <=>
            \A k \in 1..Len(cf.lines) :
                cf.lines[k][1] \notin KnownNames =>
                    \E j \in LinesOf(<< "Safe" >>) : cf.lines[j][2] = cf.lines[k][1])

\* C25: zsync_begin fails on every control file with a Z-Filename, Z-URL,
\* Z-Map2 or Recompress header, wherever the header is and whatever the
\* Safe header names.
C25_CompressedRejected ==
    (/\ Accepted \/ Rejected
     /\ \E key \in {<< "Z-Filename" >>, << "Z-URL" >>, << "Z-Map2" >>, << "Recompress" >>} :
           LinesOf(key) # {})
    => Rejected

\* The record of block id in the control file: its rsum_bytes bytes of the
\* weak sum as the low-order bytes of the 4 bytes of (a, b)
WeakBytes(id) ==
    LET rsum_bytes == zs.rs.rsum_bits \div 8
        at == id * (rsum_bytes + zs.rs.checksum_bytes)
    IN  Zeros(4 - rsum_bytes) \o Sub(cf.sums, at, at + rsum_bytes)

\* C26: for every rsum_bytes in 1..4 and every block the stored weak sum is
\* the big-endian reading of the bytes of its record: b the low 16 bits, a
\* the bits above under the a-mask 0x0000, 0x0000, 0x00ff, 0xffff.
C26_WeakSumBigEndian ==
    Accepted =>
        \A id \in 0..(zs.rs.blocks - 1) :
            /\ zs.rs.blockhashes[id + 1].b = 256 * WeakBytes(id)[3] + WeakBytes(id)[4]
            /\ zs.rs.blockhashes[id + 1].a =
                   (256 * WeakBytes(id)[1] + WeakBytes(id)[2])
                      % (<< 0, 0, 255, 65535 >>[zs.rs.rsum_bits \div 8] + 1)

(***************************************************************************)
(* Properties of the order of the steps of main and of the files it        *)
(* leaves.                                                                 *)
(***************************************************************************)

\* The seed file has been read
WasRead(name) == \E j \in 1..Len(io.reads) : io.reads[j] = name

\* This step renames the scratch file to the .part name
RenamesScratch == zs.cur_filename # "out.part" /\ zs'.cur_filename = "out.part"

\* No range request before the rename of the scratch file; the file is
\* truncated to the length of the target before the SHA-1 is verified, so
\* the result is that of the truncated file; the target path is written only
\* after zsync_complete has returned 0 or 1
RequestsTruncateAndMoveInOrder ==
    /\ [][Len(io'.requests) > Len(io.requests) => zs.cur_filename = "out.part"]_vars
    /\ [][(r = << >> /\ r' # << >>) =>
            /\ Len(fs'["out.part"].data) = cf.Length
            /\ cf.SHA1 # << >> =>
                  r'[1] = IF cf.SHA1 = Hex(SHA1(fs'["out.part"].data)) THEN 1 ELSE -1]_vars
    /\ [][fs'["out"] # fs["out"] => (r # << >> /\ r[1] # -1)]_vars

\* C27: the scratch file is renamed to the .part name only after every
\* seed file, a .part file of an earlier run included, has been read; no
\* range request is sent before the rename; the truncation precedes the
\* SHA-1 verification; the target path is written only after zsync_complete
\* has returned without error.
C27_MainOrder ==
    /\ [][RenamesScratch => \A k \in 1..Len(seedfiles) : WasRead(seedfiles[k])]_vars
    /\ RequestsTruncateAndMoveInOrder

\* C27, amended: the scratch file is renamed to the .part name only after
\* the seed loop has ended, that is when every seed file has been read or
\* the target is complete already; the rest as above.
C27_MainOrderAmended ==
    /\ [][RenamesScratch =>
            \/ \A k \in 1..Len(seedfiles) : WasRead(seedfiles[k])
            \/ zsync_status(zs) >= 2]_vars
    /\ RequestsTruncateAndMoveInOrder

\* C27: a run with a .part file of an earlier run that was read as a seed,
\* with range requests, a verified SHA-1 and the target moved into place
C27_Witness ==
    /\ pc = "done"
    /\ fs0["out.part"].exists
    /\ WasRead("out.part")
    /\ io.requests # << >>
    /\ r = << 1 >>
    /\ cf.Length % cf.Blocksize # 0
    /\ fs["out"].data = target

\* C28: when the target path exists at finalization its content is not
\* lost: after the step it is at the .zs-old path, or, when neither the
\* link nor the rename to that path succeeded, still at the target path,
\* which is not replaced, and the download stays at the .part path.
C28_OldTargetKept ==
    [][(pc = "finalize" /\ fs["out"].exists) =>
          \/ fs'["out.zs-old"] = fs["out"]
          \/ /\ fs'["out"] = fs["out"]
             /\ fs["out.part"].exists
             /\ fs'["out.part"] = fs["out.part"]]_vars

\* C28: the old target is at the .zs-old path and the download at the
\* target path
C28_Witness ==
    /\ pc = "done"
    /\ fs0["out"].exists
    /\ fs["out.zs-old"].exists
    /\ fs["out.zs-old"].data = fs0["out"].data
    /\ fs["out"].data # fs0["out"].data
    /\ ~fs["out.part"].exists

\* C29: rcksum_end closes the handle of the scratch file and unlinks the
\* file only if rcksum_filename never handed out its name; over zsync_begin,
\* zsync_rename_file, zsync_complete and zsync_end the handle is closed
\* exactly once, by zsync_complete, and the file is never unlinked once its
\* name was taken.
C29_ScratchClosedOnce ==
    /\ zs.rs.fd_closes = (IF r = << >> THEN 0 ELSE 1)
    /\ zs.rs.filename_taken => ~zs.rs.unlinked
    /\ zs.cur_filename # NoFile => (zs.rs.filename_taken /\ rcksum_filename(zs.rs) = NoFile)

\* C29: zsync_end after zsync_rename_file and zsync_complete
C29_Witness ==
    /\ pc = "finalize"
    /\ r = << 0 >>
    /\ zs.rs_null
    /\ zs.cur_filename = "out.part"
    /\ zs.rs.fd_closes = 1
    /\ ~zs.rs.unlinked

(***************************************************************************)
(* Properties of the matching of seed data.                                *)
(***************************************************************************)

\* The blocks of the target from block b on that a match of block b checks:
\* seq_matches of them
TargetWindow(b) ==
    Sub(target, b * zs.rs.blocksize, (b + zs.rs.seq_matches) * zs.rs.blocksize)

\* C30: check_checksums_on_hash_chain accepts a candidate block if and only
\* if the MD4 of each checked block of the window, truncated to
\* checksum_bytes, is the stored strong checksum: a block that becomes known
\* has such a content, and seed data that is the blocks b to b + seq_matches
\* - 1 of the target makes block b known.
C30_AcceptOnEquality ==
    /\ [][\A b \in KnownBlocks(zs'.rs) \ KnownBlocks(zs.rs) :
            Sub(rcksum_calc_checksum(ScratchBlock(zs'.rs, b)), 0, zs.rs.checksum_bytes)
               = zs.rs.blockhashes[b + 1].checksum]_vars
    /\ []((pc = "lib" /\ zs.rs.gotblocks = 0) =>
            \A b \in 0..(zs.rs.blocks - zs.rs.seq_matches) :
                (b + zs.rs.seq_matches) * zs.rs.blocksize <= Len(target) =>
                    b \in KnownBlocks(zsync_submit_source_file(zs, TargetWindow(b)).rs))

(***************************************************************************)
(* Properties of the hash index.                                           *)
(***************************************************************************)

\* The entries on the chain that starts at entry e, n at most
RECURSIVE ChainFrom(_, _, _)
ChainFrom(z, e, n) ==
    IF e = -1 \/ n = 0 THEN {}
    ELSE {e} \cup ChainFrom(z, z.blockhashes[e + 1].next, n - 1)

\* The entries on the chain of the bucket of hash h
ChainOf(z, h) == ChainFrom(z, Bucket(z, h % (z.hashmask + 1)), z.blocks)

\* C31: once the hash index is built, the entry of a block is on the chain
\* of its bucket if and only if the block is not in the known ranges.
C31_ChainIffUnknown ==
    ~zs.rs.rsum_hash_null =>
        \A b \in 0..(zs.rs.blocks - 1) :
            (b \in ChainOf(zs.rs, calc_rhash(zs.rs, b))) <=> (b \notin KnownBlocks(zs.rs))

\* The hash a window is looked up under whose content is block b of the
\* target, followed by block b + 1 when seq_matches is 2
HashOfBlock(b) ==
    window_hash(calc_sums(zs.rs,
                          PaddedBlock(target, zs.rs.blocksize, b)
                             \o PaddedBlock(target, zs.rs.blocksize, b + 1),
                          0, TRUE))

\* C32: the index has no false negatives: for every block b that is not
\* known, the hash of a window that holds block b (and block b + 1 when
\* seq_matches is 2) passes the bit filter and leads to a chain block b is on.
C32_NoFalseNegatives ==
    ~zs.rs.rsum_hash_null =>
        \A b \in 0..(zs.rs.blocks - zs.rs.seq_matches) :
            b \notin KnownBlocks(zs.rs) =>
                /\ ~zs.rs.bithash_null
                /\ (HashOfBlock(b) % (zs.rs.bithashmask + 1)) \in zs.rs.bithash
                /\ b \in ChainOf(zs.rs, HashOfBlock(b))

\* C33: when rcksum_add_target_block has changed the checksums of a block
\* after the hash index was built, the seed submission or block submission
\* that follows rebuilds the index: after it the index is there, every block
\* that is not known is on its chain and behind a set bit, and the blocks
\* the submitted seed holds are known.
C33_IndexRebuilt ==
    (call # << >> /\ call.prev = "rcksum_add_target_block"
                  /\ call.name # "rcksum_add_target_block") =>
        /\ ~zs.rs.rsum_hash_null /\ ~zs.rs.bithash_null
        /\ \A b \in 0..(zs.rs.blocks - 1) :
              b \notin KnownBlocks(zs.rs) =>
                 /\ b \in ChainOf(zs.rs, calc_rhash(zs.rs, b))
                 /\ (calc_rhash(zs.rs, b) % (zs.rs.bithashmask + 1)) \in zs.rs.bithash
        /\ call.name = "rcksum_submit_source_file" =>
              \A b \in 0..(zs.rs.blocks - zs.rs.seq_matches) :
                  (\E at \in 0..Len(call.f) :
                      Sub(call.f, at, at + zs.rs.context) = TargetWindow(b)
                      /\ Len(TargetWindow(b)) = zs.rs.context)
                     => b \in KnownBlocks(zs.rs)

(***************************************************************************)
(* Properties of the receiver.                                             *)
(***************************************************************************)

\* The call made last was zsync_receive_data on a chunk that began on a
\* block boundary and held k whole blocks, k >= 1, and t more bytes,
\* 0 < t < blocksize
ChunkWithTail ==
    /\ call # << >>
    /\ call.name = "zsync_receive_data"
    /\ call.offset % zs.blocksize = 0
    /\ call.len > zs.blocksize
    /\ call.len % zs.blocksize # 0

\* The t bytes at the end of the chunk of the call, zero-padded to a block
PaddedTail ==
    LET t == call.len % zs.blocksize
    IN  Sub(target, call.offset + call.len - t, call.offset + call.len)
           \o Zeros(zs.blocksize - t)

\* C35: after zsync_receive_data on a chunk that starts on a block boundary
\* and has the length k * blocksize + t, k >= 1 and 0 < t < blocksize, the k
\* whole blocks are known and outbuf begins with the last t bytes; the
\* zero-length call at the end of the chunk then submits these t bytes
\* zero-padded as the next block: the block is known with this content if
\* this is its checksum, and 1 is returned if it is not.
C35_TailKeptAndFlushed ==
    /\ [](ChunkWithTail /\ call.len > 0 =>
            LET t == call.len % zs.blocksize
            IN  /\ Sub(zr.outbuf, 0, t) = Sub(PaddedTail, 0, t)
                /\ zr.outoffset = call.offset + call.len
                /\ \A b \in 0..(zs.blocks - 1) :
                      (call.offset <= b * zs.blocksize
                          /\ (b + 1) * zs.blocksize <= call.offset + call.len)
                         => b \in KnownBlocks(zs.rs))
    /\ [][(ChunkWithTail /\ call'.len = 0) =>
            LET b == (call.offset + call.len) \div zs.blocksize
            IN  IF Sub(rcksum_calc_checksum(PaddedTail), 0, zs.rs.checksum_bytes)
                      = zs.rs.blockhashes[b + 1].checksum
                THEN /\ b \in KnownBlocks(zs'.rs)
                     /\ ScratchBlock(zs'.rs, b) = PaddedTail
                     /\ call'.ret = 0
                ELSE call'.ret = 1]_vars

\* The call made last was zsync_receive_data on a chunk that does not begin
\* on a block boundary
Continues(c) ==
    c # << >> /\ c.name = "zsync_receive_data" /\ c.len > 0 /\ c.offset % zs.blocksize # 0

\* C36: chunks of the target that do not overlap are received in any order:
\* every call on a chunk that begins on a block boundary returns 0, every
\* block that lies in such a chunk is known, and a chunk that begins inside
\* a block at another offset than the receiver's outoffset leaves that
\* block as it was.
C36_ChunksInAnyOrder ==
    /\ []((call # << >> /\ call.name = "zsync_receive_data" /\ call.len > 0
              /\ call.offset % zs.blocksize = 0) => call.ret = 0)
    /\ [](call # << >> => call.covered \subseteq KnownBlocks(zs.rs))
    /\ [][(Continues(call') /\ call'.offset # zr.outoffset) =>
            LET b == call'.offset \div zs.blocksize
            IN  /\ (b \in KnownBlocks(zs'.rs)) <=> (b \in KnownBlocks(zs.rs))
                /\ ScratchBlock(zs'.rs, b) = ScratchBlock(zs.rs, b)]_vars

\* C36 witness: the blocks 0 and 1 are known from two chunks, the chunk of
\* block 1 received before the chunk of block 0, and a chunk that begins
\* inside block 2 at another offset than outoffset was received before.
C36_Witness ==
    /\ call # << >>
    /\ call.name = "zsync_receive_data"
    /\ call.offset = 0
    /\ call.len = zs.blocksize
    /\ call.covered = {0, 1}
    /\ (2 * zs.blocksize + 1) \in call.sent
    /\ (2 * zs.blocksize) \notin call.sent
    /\ KnownBlocks(zs.rs) = {0, 1}

\* C37: rcksum_submit_blocks on the blocks lo to hi, the first of them with
\* a wrong strong checksum being block m, writes the blocks lo to m - 1 and
\* adds them to the known blocks, leaves every other block as it was and
\* returns -1; with no wrong block it writes and adds all of lo to hi and
\* returns 0.
C37_GoodPrefixWritten ==
    [][call'.name = "rcksum_submit_blocks" =>
         LET bs   == zs.blocksize
             lo   == call'.offset \div bs
             hi   == lo + (call'.len \div bs) - 1
             good == IF call'.m = -1 THEN lo..hi ELSE lo..(call'.m - 1)
         IN  /\ call'.ret = (IF call'.m = -1 THEN 0 ELSE -1)
             /\ KnownBlocks(zs'.rs) = KnownBlocks(zs.rs) \cup good
             /\ \A b \in 0..(zs.blocks - 1) :
                   ScratchBlock(zs'.rs, b) =
                      IF b \in good THEN PaddedBlock(target, bs, b)
                      ELSE ScratchBlock(zs.rs, b)]_vars

\* C37 witness: of the blocks 0 to 2, submitted with block 1 wrong, block 0
\* alone is known and -1 was returned.
C37_Witness ==
    /\ call # << >>
    /\ call.name = "rcksum_submit_blocks"
    /\ call.offset = 0
    /\ call.len = 3 * zs.blocksize
    /\ call.m = 1
    /\ call.ret = -1
    /\ KnownBlocks(zs.rs) = {0}
    /\ Len(zs.rs.fd) = zs.blocksize

(***************************************************************************)
(* Properties of the scan of a seed file.                                  *)
(***************************************************************************)

\* The scan step by step ends in the state rcksum_submit_source_file gives
ScanIsSubmitSourceFile ==
    (call # << >> /\ call.at = "done") => zs.rs = rcksum_submit_source_file(call.from, call.f)

\* C34: during the scan of a seed, write_blocks is called on blocks of the
\* target only that are not known yet: the blocks id to id + num_write_blocks
\* - 1 of a turn of check_checksums_on_hash_chain, on the chain of a bucket
\* or on z.next_match with the cached z.next_known, are below z.blocks and
\* none of them is in the known ranges.
C34_KnownBlocksNotRewritten ==
    [][(call # << >> /\ call.name = "rcksum_submit_source_file"
           /\ call.at = "chain" /\ zs.rs.rover # -1) =>
         \A b \in zs.rs.rover..(zs.rs.rover + (call'.got - call.got) - 1) :
             b < zs.rs.blocks /\ b \notin KnownBlocks(zs.rs)]_vars

\* C38: at every window of rcksum_submit_source_data the sums z.r[0] (and
\* z.r[1] when seq_matches is 2) that were rolled there byte by byte are
\* the sums rcksum_calc_rsum_block computes of the block at the window (and
\* of the block after it), modulo 2^16.
C38_RolledSumsAreBlockSums ==
    (call # << >> /\ call.name = "rcksum_submit_source_file" /\ call.at = "window") =>
        /\ zs.rs.r[1] = rcksum_calc_rsum_block(call.buf, call.x, zs.rs.blocksize)
        /\ zs.rs.seq_matches > 1 =>
              zs.rs.r[2] = rcksum_calc_rsum_block(call.buf, call.x + zs.rs.blocksize,
                                                  zs.rs.blocksize)

\* C38: a window reached by rolling, not at a block boundary of the
\* buffer, where both sums b have passed 2^16 (b < a shows it)
C38_Witness ==
    /\ call # << >> /\ call.name = "rcksum_submit_source_file" /\ call.at = "window"
    /\ zs.rs.blocksize \in WideBlockSizes
    /\ zs.rs.seq_matches > 1
    /\ call.x % zs.rs.blocksize # 0
    /\ zs.rs.r[1].b < zs.rs.r[1].a
    /\ zs.rs.r[2].b < zs.rs.r[2].a
    /\ zs.rs.r[1] = rcksum_calc_rsum_block(call.buf, call.x, zs.rs.blocksize)

\* The offsets in the seed file that a hit of the scan skipped: the
\* blocksize * blocks_matched bytes from the hit on, but for the hit itself
Skipped(c, bs) ==
    {s \in 0..(Len(c.f) - 1) : \E h \in c.hits : h.at < s /\ s < h.at + bs * h.blocks}

\* The variant of the scan: a number that is 0 when the scan is done and
\* otherwise made of the bytes of the seed file from the window on, the
\* place in the code and the entries left on the chain
ScanRank ==
    LET z     == zs.rs
        where == IF call.at = "read"
                 THEN (IF call.in2 = 0 THEN 0 ELSE call.in2 - z.context) + z.skip
                 ELSE call.base + call.x
        place == IF call.at = "window"
                 THEN (IF call.x + z.context = call.len THEN 4 ELSE 2)
                 ELSE IF call.at = "read" THEN 3
                 ELSE IF call.onlyone THEN 1 ELSE 0
        left  == IF call.at = "chain" THEN Cardinality(ChainFrom(z, z.rover, z.blocks)) ELSE 0
    IN  IF call.at = "done" THEN 0
        ELSE IF call.at = "read" /\ call.pos >= Len(call.f) /\ call.in2 # 0 THEN 1
        ELSE 2 + (Len(call.f) + z.context - where) * 5 * (z.blocks + 1)
               + place * (z.blocks + 1) + left

\* C39: every window of the scan, in the first buffer and after every
\* refill, is at a place of the seed file that was not looked at before and
\* has the rolling sums of the seed file's bytes at that place; when the
\* scan is done every place of the seed file was looked at but those skipped
\* after a hit, also when the skip went beyond the end of the buffer; and
\* the scan of a seed file ends: it has a next step until it is done, and
\* every step lowers the variant, a natural number.
C39_ScanResumesAndEnds ==
    /\ [](call # << >> /\ call.name = "rcksum_submit_source_file" =>
            /\ ~call.twice
            /\ call.at = "window" /\ call.x + zs.rs.context # call.len =>
                  /\ call.base + call.x \notin call.seen \cup Skipped(call, zs.rs.blocksize)
                  /\ zs.rs.r[1] = rcksum_calc_rsum_block(call.f, call.base + call.x,
                                                         zs.rs.blocksize)
                  /\ zs.rs.seq_matches > 1 =>
                        zs.rs.r[2] = rcksum_calc_rsum_block(
                                         call.f, call.base + call.x + zs.rs.blocksize,
                                         zs.rs.blocksize)
            /\ call.at = "done" =>
                  /\ call.seen \cup Skipped(call, zs.rs.blocksize) = 0..(Len(call.f) - 1)
                  /\ call.seen \cap Skipped(call, zs.rs.blocksize) = {}
            /\ call.at \in {"read", "window", "chain", "done"}
            /\ ScanRank >= 0)
    /\ [][call # << >> /\ call.name = "rcksum_submit_source_file" =>
            ScanRank' < ScanRank]_vars

\* C39: a scan that is done, of a seed file longer than the buffer, with a
\* hit in the first buffer whose skip went beyond the end of that buffer,
\* and the window after the skip looked up from the second buffer
C39_Witness ==
    /\ call # << >> /\ call.name = "rcksum_submit_source_file" /\ call.at = "done"
    /\ Len(call.f) > zs.rs.blocksize * BufBlocks
    /\ \E h \in call.hits :
          /\ h.at + zs.rs.context < zs.rs.blocksize * BufBlocks
          /\ h.at + zs.rs.blocksize * h.blocks + zs.rs.context > zs.rs.blocksize * BufBlocks
          /\ h.at + zs.rs.blocksize * h.blocks \in call.seen

\* The chunks 1..n of a response body one after the other
RECURSIVE Joined(_, _)
Joined(body, n) == IF n = 0 THEN << >> ELSE Joined(body, n - 1) \o body[n]

\* C40: whatever the order of the 'data' events, the completions of the
\* writes and the 'end' event, no two chunks are written at the same
\* position of the file, the handle is not closed while a write is pending
\* on it, and the file http_get hands back holds the chunks of the response,
\* each once, in the order they came.
C40_ChunksOnceInOrder ==
    (call # << >> /\ call.name = "http_get") =>
        /\ \A v \in call.writes, w \in call.writes : v.pos = w.pos => v.k = w.k
        /\ call.closed => call.pending = {}
        /\ call.handed # << >> => call.handed[1] = Joined(call.body, Len(call.body))

====
